---- MODULE Spec2Model ----
(***************************************************************************)
(* evm2cpp analysis core (src/src/analysis.rs): the code-metadata scanner  *)
(* (CodeMeta::new), the basic-block partitioner (BasicBlock::parse,        *)
(* Program::new) and the abstract-stack emulator (BasicBlock::emulate_bb,  *)
(* BasicBlock::optimize, evaluate_opcode).                                 *)
(*                                                                         *)
(* Byte offsets are 0-based as in the source; TLA+ sequences are 1-based,  *)
(* so the byte at offset i of a slice s is s[i + 1] (operator At).         *)
(***************************************************************************)
EXTENDS Integers, Sequences, FiniteSets, TLC

VARIABLES bytecode, basic_blocks, index, inst_global_index, meta, phase

vars == <<bytecode, basic_blocks, index, inst_global_index, meta, phase>>

(***************************************************************************)
(* Generic helpers.                                                        *)
(***************************************************************************)
Min(a, b) == IF a < b THEN a ELSE b

Max(a, b) == IF a > b THEN a ELSE b

At(s, i) == s[i + 1]

\* s[lo..hi) with 0-based offsets, as a Rust slice range
Slice(s, lo, hi) == IF hi <= lo THEN <<>> ELSE SubSeq(s, lo + 1, hi)

Reverse(s) == [i \in 1..Len(s) |-> s[Len(s) + 1 - i]]

RECURSIVE Repeat(_, _)
Repeat(x, n) == IF n <= 0 THEN <<>> ELSE <<x>> \o Repeat(x, n - 1)

\* all sequences over S of length exactly n
RECURSIVE SeqsOfLen(_, _)
SeqsOfLen(S, n) ==
    IF n = 0 THEN {<<>>}
    ELSE {Append(s, x) : s \in SeqsOfLen(S, n - 1), x \in S}

SeqsUpTo(S, n) == UNION {SeqsOfLen(S, k) : k \in 0..n}

(***************************************************************************)
(* U256 (ethereum_types::U256): a 256-bit unsigned integer.  It is kept    *)
(* as its base-256 digits, least significant first, without leading zero   *)
(* digits (so 0 is <<>> and equality is structural) and never more than    *)
(* U256Bytes digits.                                                       *)
(***************************************************************************)
U256Bytes == 32

U256Bits == 256

LimbBase == 256

Limb(a, i) == IF i >= 1 /\ i <= Len(a) THEN a[i] ELSE 0

RECURSIVE Norm(_)
Norm(s) ==
    IF s = <<>> THEN <<>>
    ELSE IF s[Len(s)] = 0 THEN Norm(SubSeq(s, 1, Len(s) - 1))
    ELSE s

\* keep the low 256 bits
Wrap(s) == Norm(IF Len(s) > U256Bytes THEN SubSeq(s, 1, U256Bytes) ELSE s)

RECURSIVE FromNat(_)
FromNat(n) == IF n = 0 THEN <<>> ELSE <<n % LimbBase>> \o FromNat(n \div LimbBase)

U256_ZERO == <<>>

U256_ONE == <<1>>

U256_MAX == [i \in 1..U256Bytes |-> LimbBase - 1]

IsZero(a) == a = <<>>

\* U256::from_big_endian on a slice of at most 32 bytes
FromBigEndian(bytes) == Wrap(Reverse(bytes))

\* value of a U256 known to be small (at most three digits)
AsSmallNat(a) == Limb(a, 1) + LimbBase * Limb(a, 2) + LimbBase * LimbBase * Limb(a, 3)

RECURSIVE CmpFrom(_, _, _)
CmpFrom(a, b, i) ==
    IF i = 0 THEN 0
    ELSE IF a[i] < b[i] THEN -1
    ELSE IF a[i] > b[i] THEN 1
    ELSE CmpFrom(a, b, i - 1)

\* -1, 0, 1 as a < b, a = b, a > b (both normalised)
Cmp(a, b) ==
    IF Len(a) < Len(b) THEN -1
    ELSE IF Len(a) > Len(b) THEN 1
    ELSE CmpFrom(a, b, Len(a))

ULt(a, b) == Cmp(a, b) = -1

UGt(a, b) == Cmp(a, b) = 1

ULe(a, b) == Cmp(a, b) <= 0

\* unbounded addition of digit strings
RECURSIVE AddDigits(_, _, _, _, _)
AddDigits(a, b, i, carry, n) ==
    IF i > n THEN (IF carry = 0 THEN <<>> ELSE <<carry>>)
    ELSE LET s == Limb(a, i) + Limb(b, i) + carry
         IN  <<s % LimbBase>> \o AddDigits(a, b, i + 1, s \div LimbBase, n)

NAdd(a, b) == Norm(AddDigits(a, b, 1, 0, Max(Len(a), Len(b))))

\* digit-wise subtraction over n digits, the final borrow dropped
RECURSIVE SubDigits(_, _, _, _, _)
SubDigits(a, b, i, borrow, n) ==
    IF i > n THEN <<>>
    ELSE LET d == Limb(a, i) - Limb(b, i) - borrow
         IN  <<d % LimbBase>> \o SubDigits(a, b, i + 1, IF d < 0 THEN 1 ELSE 0, n)

\* a - b for a >= b
NSub(a, b) == Norm(SubDigits(a, b, 1, 0, Len(a)))

\* column k (1-based) of the schoolbook product
RECURSIVE ColSum(_, _, _, _)
ColSum(a, b, k, i) ==
    IF i > Min(k, Len(a)) THEN 0
    ELSE Limb(a, i) * Limb(b, k + 1 - i) + ColSum(a, b, k, i + 1)

RECURSIVE MulDigits(_, _, _, _, _)
MulDigits(a, b, k, carry, n) ==
    IF k > n THEN <<>>
    ELSE LET s == ColSum(a, b, k, Max(1, k + 1 - Len(b))) + carry
         IN  <<s % LimbBase>> \o MulDigits(a, b, k + 1, s \div LimbBase, n)

\* a.overflowing_add(b).0
OverflowingAdd(a, b) == Wrap(NAdd(a, b))

\* a.overflowing_sub(b).0
OverflowingSub(a, b) == Norm(SubDigits(a, b, 1, 0, U256Bytes))

\* a.overflowing_mul(b).0
OverflowingMul(a, b) ==
    IF a = <<>> \/ b = <<>> THEN <<>>
    ELSE Norm(MulDigits(a, b, 1, 0, Min(Len(a) + Len(b), U256Bytes)))

Pow2(k) == 2 ^ k

\* bit k (0 = least significant) of a
Bit(a, k) == (Limb(a, (k \div 8) + 1) \div Pow2(k % 8)) % 2

\* 2 * r + bit, unbounded
Double(r, bit) == NAdd(NAdd(r, r), IF bit = 1 THEN <<1>> ELSE <<>>)

\* one step of long division: bring down bit k of a; qr = <<quotient, remainder>>
DivStepWith(q, r2, b, ge) == <<Double(q, IF ge THEN 1 ELSE 0), IF ge THEN NSub(r2, b) ELSE r2>>

DivStepCmp(q, r2, b) == DivStepWith(q, r2, b, Cmp(r2, b) >= 0)

DivStepOn(a, b, k, qr) == DivStepCmp(qr[1], Double(qr[2], Bit(a, k)), b)

\* the steps for bits hi down to lo of a, in that order; the range is halved
\* and the first half is computed before the second starts from it
RECURSIVE DivSteps(_, _, _, _, _)
DivSteps(a, b, hi, lo, qr0) ==
    IF hi < lo THEN qr0
    ELSE IF hi = lo THEN CHOOSE res \in {DivStepOn(a, b, hi, qr) : qr \in {qr0}} : TRUE
    ELSE LET mid == (hi + lo + 1) \div 2
         IN  CHOOSE res \in {DivSteps(a, b, mid - 1, lo, qr) :
                                qr \in {DivSteps(a, b, hi, mid, qr0)}} : TRUE

\* long division, one bit of a at a time from the top
DivMod(a, b) == DivSteps(a, b, 8 * Len(a) - 1, 0, <<(<<>>), (<<>>)>>)

\* a / b for b /= 0
UDiv(a, b) == DivMod(a, b)[1]

\* a % b for b /= 0
URem(a, b) == DivMod(a, b)[2]

IsEven(a) == Limb(a, 1) % 2 = 0

\* a >> 1
Half(a) == Norm([i \in 1..Len(a) |-> (a[i] \div 2) + (Limb(a, i + 1) % 2) * 128])

\* one round of U256::overflowing_pow's loop `while n > 1`; s = <<n, x, y>>
PowStep(s) ==
    IF ~UGt(s[1], U256_ONE) THEN s
    ELSE IF IsEven(s[1])
    THEN <<Half(s[1]), OverflowingMul(s[2], s[2]), s[3]>>
    ELSE <<Half(NSub(s[1], U256_ONE)), OverflowingMul(s[2], s[2]), OverflowingMul(s[2], s[3])>>

\* k rounds, the first half computed before the second starts from it
RECURSIVE PowRounds(_, _)
PowRounds(s0, k) ==
    IF k = 0 THEN s0
    ELSE IF k = 1 THEN CHOOSE res \in {PowStep(s) : s \in {s0}} : TRUE
    ELSE CHOOSE res \in {PowRounds(s, k - (k \div 2)) : s \in {PowRounds(s0, k \div 2)}} : TRUE

\* the product that ends U256::overflowing_pow
PowResult(s) == OverflowingMul(s[2], s[3])

\* U256::overflowing_pow: square and multiply; the loop halves n, so it ends
\* within 8 * Len(expon) rounds
OverflowingPow(a, expon) ==
    IF IsZero(expon) THEN U256_ONE
    ELSE PowResult(PowRounds(<<expon, a, U256_ONE>>, 8 * Len(expon)))

\* bitwise operations on one byte, bit by bit
RECURSIVE ByteAnd(_, _, _)
ByteAnd(x, y, n) ==
    IF n = 0 THEN 0
    ELSE (IF x % 2 = 1 /\ y % 2 = 1 THEN 1 ELSE 0) + 2 * ByteAnd(x \div 2, y \div 2, n - 1)

RECURSIVE ByteOr(_, _, _)
ByteOr(x, y, n) ==
    IF n = 0 THEN 0
    ELSE (IF x % 2 = 1 \/ y % 2 = 1 THEN 1 ELSE 0) + 2 * ByteOr(x \div 2, y \div 2, n - 1)

RECURSIVE ByteXor(_, _, _)
ByteXor(x, y, n) ==
    IF n = 0 THEN 0
    ELSE (IF x % 2 /= y % 2 THEN 1 ELSE 0) + 2 * ByteXor(x \div 2, y \div 2, n - 1)

BitAnd(a, b) == Norm([i \in 1..Min(Len(a), Len(b)) |-> ByteAnd(a[i], b[i], 8)])

BitOr(a, b) == Norm([i \in 1..Max(Len(a), Len(b)) |-> ByteOr(Limb(a, i), Limb(b, i), 8)])

BitXor(a, b) == Norm([i \in 1..Max(Len(a), Len(b)) |-> ByteXor(Limb(a, i), Limb(b, i), 8)])

\* !a
BitNot(a) == Norm([i \in 1..U256Bytes |-> (LimbBase - 1) - Limb(a, i)])

\* a << s for a shift count s that fits a usize: digits move up by s / 8 and
\* then by s % 8 bits; everything moved past bit 255 is dropped
ShlBy(a, s) ==
    IF s >= U256Bits THEN <<>>
    ELSE LET ds == s \div 8
             bs == s % 8
         IN  Norm([i \in 1..U256Bytes |->
                     ((Limb(a, i - ds) * Pow2(bs)) % LimbBase)
                       + (Limb(a, i - ds - 1) \div Pow2(8 - bs))])

\* a >> s for a shift count s that fits a usize
ShrBy(a, s) ==
    IF s >= U256Bits THEN <<>>
    ELSE LET ds == s \div 8
             bs == s % 8
         IN  Norm([i \in 1..U256Bytes |->
                     (Limb(a, i + ds) \div Pow2(bs))
                       + ((Limb(a, i + ds + 1) * Pow2(8 - bs)) % LimbBase)])

\* U256::from(usize::MAX) on a 64-bit target: 2^64 - 1
USIZE_MAX == [i \in 1..8 |-> LimbBase - 1]

\* b << a and b >> a with a U256 shift count a <= usize::MAX (a.as_usize()):
\* a count of 256 or more clears every word
Shl(b, a) == IF Len(a) >= 2 THEN <<>> ELSE ShlBy(b, AsSmallNat(a))

Shr(b, a) == IF Len(a) >= 2 THEN <<>> ELSE ShrBy(b, AsSmallNat(a))

(***************************************************************************)
(* The instruction table (crate::instructions::Instruction).  An           *)
(* Instruction is identified by its opcode byte.                           *)
(***************************************************************************)
STOP == 0

ADD == 1

MUL == 2

SUB == 3

DIV == 4

SDIV == 5

MOD == 6

SMOD == 7

ADDMOD == 8

MULMOD == 9

EXP == 10

SIGNEXTEND == 11

LT == 16

GT == 17

SLT == 18

SGT == 19

EQ == 20

ISZERO == 21

AND == 22

OR == 23

XOR == 24

NOT == 25

BYTE == 26

SHL == 27

SHR == 28

SAR == 29

SHA3 == 32

CALLDATALOAD == 53

CODESIZE == 56

POP == 80

MLOAD == 81

MSTORE == 82

JUMP == 86

JUMPI == 87

PC == 88

JUMPDEST == 91

PUSH1 == 96

PUSH32 == 127

DUP1 == 128

DUP16 == 143

SWAP1 == 144

SWAP16 == 159

LOG0 == 160

LOG4 == 164

RETURN == 243

REVERT == 253

SELFDESTRUCT == 255

\* the bytes that are no opcode of the table (Instruction::from_u8 is None)
UndefinedBytes ==
    (12..15) \cup (30..31) \cup (33..47) \cup (72..79) \cup (92..95)
        \cup (165..239) \cup (246..249) \cup (251..252) \cup {254}

\* Instruction::from_u8(b).is_some()
FromU8IsSome(b) == b \notin UndefinedBytes

IsPush(op) == op >= PUSH1 /\ op <= PUSH32

\* inst.push_bytes().unwrap_or(0): the number of immediate bytes
PushBytes(op) == IF IsPush(op) THEN op - PUSH1 + 1 ELSE 0

IsDup(op) == op >= DUP1 /\ op <= DUP16

\* inst.dup_position(): DUP1 gives 0
DupPosition(op) == op - DUP1

IsSwap(op) == op >= SWAP1 /\ op <= SWAP16

\* inst.swap_position(): SWAP1 gives 1
SwapPosition(op) == op - SWAP1 + 1

\* inst.stops()
Stops(op) == op \in {STOP, RETURN, REVERT, SELFDESTRUCT}

\* inst.is_jump()
IsJump(op) == op \in {JUMP, JUMPI}

\* inst.pushes_constant()
PushesConstant(op) == IsPush(op) \/ op = PC

\* inst.info().args
InfoArgs(op) ==
    IF IsPush(op) THEN 0
    ELSE IF IsDup(op) THEN DupPosition(op) + 1
    ELSE IF IsSwap(op) THEN SwapPosition(op) + 1
    ELSE IF op >= LOG0 /\ op <= LOG4 THEN op - LOG0 + 2
    ELSE IF op \in {STOP, 48, 50, 51, 52, 54, CODESIZE, 58, 61, 65, 66, 67, 68, 69, 70, 71,
                    PC, 89, 90, JUMPDEST} THEN 0
    ELSE IF op \in {ISZERO, NOT, 49, CALLDATALOAD, 59, 63, 64, POP, MLOAD, 84, JUMP,
                    SELFDESTRUCT} THEN 1
    ELSE IF op \in {ADDMOD, MULMOD, 55, 57, 62, 240} THEN 3
    ELSE IF op \in {60, 245} THEN 4
    ELSE IF op \in {244, 250} THEN 6
    ELSE IF op \in {241, 242} THEN 7
    ELSE 2

\* inst.info().ret
InfoRet(op) ==
    IF IsDup(op) THEN DupPosition(op) + 2
    ELSE IF IsSwap(op) THEN SwapPosition(op) + 1
    ELSE IF op \in {STOP, 55, 57, 60, 62, POP, MSTORE, 83, 85, JUMP, JUMPI, JUMPDEST,
                    RETURN, REVERT, SELFDESTRUCT}
            \/ (op >= LOG0 /\ op <= LOG4) THEN 0
    ELSE 1

(***************************************************************************)
(* Operand, IInstruction, BasicBlock, CodeMeta.                            *)
(* An Operand is a record of its variant (kind), its IInstRef (ref) and    *)
(* its payload: off for the three reference variants, val for Constant;    *)
(* the payload field a variant does not have is 0 / U256_ZERO.             *)
(***************************************************************************)
StackRef(r, o) == [kind |-> "StackRef", ref |-> r, off |-> o, val |-> U256_ZERO]

StackPop(r, o) == [kind |-> "StackPop", ref |-> r, off |-> o, val |-> U256_ZERO]

Constant(r, v) == [kind |-> "Constant", ref |-> r, off |-> 0, val |-> v]

InstructionRef(r, o) == [kind |-> "InstructionRef", ref |-> r, off |-> o, val |-> U256_ZERO]

\* Option<T>
None == [some |-> FALSE, v |-> <<>>]

Some(x) == [some |-> TRUE, v |-> x]

\* Result<Instruction, u8>
Ok(op) == [ok |-> TRUE, byte |-> op]

Err(b) == [ok |-> FALSE, byte |-> b]

\* the IInstruction literal at the top of parse's loop body
NewIInstruction(pc, gidx, b) ==
    [address |-> pc, global_idx |-> gidx, opcode |-> Err(b), is_constant |-> FALSE,
     operands |-> None, value |-> None, ignoreable |-> FALSE]

\* the BasicBlock literal at the top of parse
NewBasicBlock(start_index) ==
    [address |-> start_index, instructions |-> <<>>, returns |-> <<>>,
     stack_sets |-> <<>>, pops_at_end |-> 0, optimized |-> FALSE,
     ends_on_invalid |-> FALSE]

(***************************************************************************)
(* CodeMeta::new                                                           *)
(***************************************************************************)
\* ClearRange that also clears the bit at up
ClearRangeInclusive(bits, lb, up) ==
    [j \in 1..Len(bits) |-> IF j - 1 >= lb /\ j - 1 <= up THEN FALSE ELSE bits[j]]

\* `for j in lb..up { iscode.set(j, false) }`
ClearRange(bits, lb, up) ==
    [j \in 1..Len(bits) |-> IF j - 1 >= lb /\ j - 1 < up THEN FALSE ELSE bits[j]]

\* CodeMetaStep that steps over a PUSH opcode only, not over its immediate
CodeMetaStepNoSkip(code, st) ==
    IF ~(st.i < Len(code)) THEN st
    ELSE IF At(code, st.i) = JUMPDEST
    THEN [st EXCEPT !.jumpdests[st.i + 1] = TRUE, !.i = st.i + 1]
    ELSE IF IsPush(At(code, st.i))
    THEN [st EXCEPT !.iscode = ClearRange(st.iscode, Min(st.i + 1, Len(code)),
                                          Min(st.i + 1 + PushBytes(At(code, st.i)), Len(code))),
                    !.i = st.i + 1]
    ELSE [st EXCEPT !.i = st.i + 1]

\* one round of `while i < code.len()`; st = [i, jumpdests, iscode]
CodeMetaStep(code, st) ==
    IF ~(st.i < Len(code)) THEN st
    ELSE LET b == At(code, st.i)
         IN  IF FromU8IsSome(b) /\ b = JUMPDEST
             THEN [st EXCEPT !.jumpdests[st.i + 1] = TRUE, !.i = st.i + 1]
             ELSE IF FromU8IsSome(b)
             THEN IF IsPush(b)
                  THEN LET v  == PushBytes(b)
                           lb == Min(st.i + 1, Len(code))
                           up == Min(st.i + 1 + v, Len(code))
                       IN  [st EXCEPT !.iscode = ClearRange(st.iscode, lb, up),
                                      !.i = st.i + v + 1]
                  ELSE [st EXCEPT !.i = st.i + 1]
             ELSE [st EXCEPT !.i = st.i + 1]

\* k rounds of the loop, the first half computed before the second starts from it
RECURSIVE CodeMetaRounds(_, _, _)
CodeMetaRounds(code, st0, k) ==
    IF k = 0 THEN st0
    ELSE IF k = 1 THEN CHOOSE res \in {CodeMetaStep(code, st) : st \in {st0}} : TRUE
    ELSE CHOOSE res \in {CodeMetaRounds(code, st, k - (k \div 2)) :
                           st \in {CodeMetaRounds(code, st0, k \div 2)}} : TRUE

\* every round advances i by at least 1, so the loop ends within code.len() rounds
CodeMetaOf(st) == [jumpdests |-> st.jumpdests, iscode |-> st.iscode]

CodeMetaNew(code) ==
    CodeMetaOf(CodeMetaRounds(code,
                              [i |-> 0,
                               jumpdests |-> [j \in 1..Len(code) |-> FALSE],
                               iscode |-> [j \in 1..Len(code) |-> TRUE]],
                              Len(code)))

\* CodeMeta::is_valid_jumpdest
IsValidJumpdest(m, position) ==
    IF position >= Len(m.jumpdests) THEN FALSE ELSE At(m.jumpdests, position)

\* CodeMeta::is_instruction
IsInstruction(m, position) ==
    IF position >= Len(m.iscode) THEN FALSE ELSE At(m.iscode, position)

(***************************************************************************)
(* BasicBlock::parse                                                       *)
(***************************************************************************)
\* PushValue that stores 0 unless the code goes on after the immediate
PushValueZeroAtEnd(code, pc, n) ==
    IF pc + 1 + n < Len(code) THEN FromBigEndian(Slice(code, pc + 1, pc + 1 + n))
    ELSE FromNat(0)

\* the value stored for a PUSHn at pc
PushValue(code, pc, n) ==
    IF pc + 1 + n < Len(code) THEN FromBigEndian(Slice(code, pc + 1, pc + 1 + n))
    ELSE IF pc + 1 = Len(code) THEN FromNat(0)
    ELSE FromBigEndian(Slice(code, pc + 1, Len(code)))

\* the operands the partitioner gives the instruction at local index idx
ParseOperands(inst, idx) ==
    IF IsDup(inst) THEN Some(<<StackRef(idx, DupPosition(inst))>>)
    ELSE IF IsSwap(inst) THEN Some(<<StackRef(idx, 0), StackRef(idx, SwapPosition(inst))>>)
    ELSE IF InfoArgs(inst) = 0 THEN None
    ELSE Some([i \in 1..InfoArgs(inst) |-> StackPop(idx, i - 1)])

\* ShouldBreak that looks at the byte after the opcode, immediate or not
ShouldBreakNextByte(code, pc, inst) ==
    \/ Stops(inst)
    \/ IsJump(inst)
    \/ pc + 1 < Len(code) /\ At(code, pc + 1) = JUMPDEST

\* ShouldBreak that does not look at the next byte
ShouldBreakNoLookahead(code, pc, inst) == Stops(inst) \/ IsJump(inst)

\* `should_break` for a decoded instruction at pc
ShouldBreak(code, pc, inst) ==
    LET next_pc == pc + 1 + PushBytes(inst)
        next_is_jumpdest ==
            IF next_pc < Len(code)
            THEN FromU8IsSome(At(code, next_pc)) /\ At(code, next_pc) = JUMPDEST
            ELSE FALSE
    IN  Stops(inst) \/ IsJump(inst) \/ next_is_jumpdest

\* ParseDecoded that never sets is_constant
ParseDecodedNeverConstant(code, pc, gidx, idx, inst) ==
    [address |-> pc, global_idx |-> gidx, opcode |-> Ok(inst),
     is_constant |-> FALSE,
     operands |-> ParseOperands(inst, idx),
     value |-> IF IsPush(inst) THEN Some(<<PushValue(code, pc, PushBytes(inst))>>)
               ELSE IF inst = PC THEN Some(<<FromNat(pc)>>)
               ELSE IF inst = CODESIZE THEN Some(<<FromNat(Len(code))>>)
               ELSE None,
     ignoreable |-> FALSE]

\* the IInstruction built for a decoded instruction
ParseDecoded(code, pc, gidx, idx, inst) ==
    LET v0 == IF PushesConstant(inst)
              THEN IF IsPush(inst) THEN Some(<<PushValue(code, pc, PushBytes(inst))>>)
                   ELSE Some(<<FromNat(pc)>>)
              ELSE None
        v1 == IF inst = CODESIZE THEN Some(<<FromNat(Len(code))>>) ELSE v0
    IN  [address |-> pc, global_idx |-> gidx, opcode |-> Ok(inst),
         is_constant |-> PushesConstant(inst),
         operands |-> ParseOperands(inst, idx), value |-> v1, ignoreable |-> FALSE]

\* one round of `while pc < bytecode.len()`; st = [bb, idx, pc, gidx, done],
\* done once the loop has been left
\* ParseByte that forgets to skip the PUSH immediate
ParseByteNoSkip(code, st, b, decoded) ==
    [bb   |-> [st.bb EXCEPT
                 !.instructions =
                     Append(@, IF decoded THEN ParseDecoded(code, st.pc, st.gidx, st.idx, b)
                               ELSE NewIInstruction(st.pc, st.gidx, b)),
                 !.ends_on_invalid = IF decoded THEN @ ELSE TRUE],
     idx  |-> st.idx + 1,
     pc   |-> st.pc + 1,
     gidx |-> st.gidx + 1,
     done |-> IF decoded THEN ShouldBreak(code, st.pc, b) ELSE TRUE]

\* ParseByte that does not step over an undecodable byte
ParseByteInvalidStays(code, st, b, decoded) ==
    [bb   |-> [st.bb EXCEPT
                 !.instructions =
                     Append(@, IF decoded THEN ParseDecoded(code, st.pc, st.gidx, st.idx, b)
                               ELSE NewIInstruction(st.pc, st.gidx, b)),
                 !.ends_on_invalid = IF decoded THEN @ ELSE TRUE],
     idx  |-> st.idx + 1,
     pc   |-> IF decoded THEN st.pc + PushBytes(b) + 1 ELSE st.pc,
     gidx |-> st.gidx + 1,
     done |-> IF decoded THEN ShouldBreak(code, st.pc, b) ELSE TRUE]

\* ParseByte that goes on with the block after an undecodable byte
ParseByteInvalidGoesOn(code, st, b, decoded) ==
    [bb   |-> [st.bb EXCEPT
                 !.instructions =
                     Append(@, IF decoded THEN ParseDecoded(code, st.pc, st.gidx, st.idx, b)
                               ELSE NewIInstruction(st.pc, st.gidx, b)),
                 !.ends_on_invalid = IF decoded THEN @ ELSE TRUE],
     idx  |-> st.idx + 1,
     pc   |-> (IF decoded THEN st.pc + PushBytes(b) ELSE st.pc) + 1,
     gidx |-> st.gidx + 1,
     done |-> IF decoded THEN ShouldBreak(code, st.pc, b) ELSE FALSE]

ParseByte(code, st, b, decoded) ==
    [bb   |-> [st.bb EXCEPT
                 !.instructions =
                     Append(@, IF decoded THEN ParseDecoded(code, st.pc, st.gidx, st.idx, b)
                               ELSE NewIInstruction(st.pc, st.gidx, b)),
                 !.ends_on_invalid = IF decoded THEN @ ELSE TRUE],
     idx  |-> st.idx + 1,
     pc   |-> (IF decoded THEN st.pc + PushBytes(b) ELSE st.pc) + 1,
     gidx |-> st.gidx + 1,
     done |-> IF decoded THEN ShouldBreak(code, st.pc, b) ELSE TRUE]

ParseStep(code, st) ==
    IF st.done \/ ~(st.pc < Len(code)) THEN [st EXCEPT !.done = TRUE]
    ELSE ParseByte(code, st, At(code, st.pc), FromU8IsSome(At(code, st.pc)))

RECURSIVE ParseRounds(_, _, _)
ParseRounds(code, st0, k) ==
    IF k = 0 THEN st0
    ELSE IF k = 1 THEN CHOOSE res \in {ParseStep(code, st) : st \in {st0}} : TRUE
    ELSE CHOOSE res \in {ParseRounds(code, st, k - (k \div 2)) :
                           st \in {ParseRounds(code, st0, k \div 2)}} : TRUE

\* parse(bytecode, start_index, inst_global_index) = (bb, pc); every round
\* advances pc by at least 1, so the loop ends within code.len() rounds
ParseResult(st) == [bb |-> st.bb, pc |-> st.pc]

Parse(code, start_index, gidx0) ==
    ParseResult(ParseRounds(code,
                            [bb |-> NewBasicBlock(start_index), idx |-> 0,
                             pc |-> start_index, gidx |-> gidx0, done |-> FALSE],
                            Len(code)))

(***************************************************************************)
(* evaluate_opcode: the folding oracle.  The result is the pair            *)
(* [ret, is_constant].                                                     *)
(***************************************************************************)
IsConst(x) == x.kind = "Constant"

IsConstVal(x, v) == x.kind = "Constant" /\ x.val = v

\* the `args.len() == 1` arm
Fold1(evm_inst, idx, args) ==
    IF IsConst(args[1])
    THEN LET a == args[1].val
         IN  IF evm_inst = ISZERO
             THEN Some(Constant(idx, IF IsZero(a) THEN U256_ONE ELSE U256_ZERO))
             ELSE IF evm_inst = NOT THEN Some(Constant(idx, BitNot(a)))
             ELSE None
    ELSE None

\* the `args.len() == 2` arm with two constants a = args[0], b = args[1]
Fold2Const(evm_inst, idx, a, b) ==
    CASE evm_inst = ADD -> Some(Constant(idx, OverflowingAdd(a, b)))
      [] evm_inst = MUL -> Some(Constant(idx, OverflowingMul(a, b)))
      [] evm_inst = SUB -> Some(Constant(idx, OverflowingSub(a, b)))
      [] evm_inst = DIV ->
            IF IsZero(b) THEN Some(Constant(idx, U256_ZERO))
            ELSE Some(Constant(idx, UDiv(a, b)))
      [] evm_inst = MOD ->
            IF IsZero(b) THEN Some(Constant(idx, U256_ZERO))
            ELSE Some(Constant(idx, URem(a, b)))
      [] evm_inst = EXP -> Some(Constant(idx, OverflowingPow(a, b)))
      [] evm_inst = LT -> Some(Constant(idx, IF ULt(a, b) THEN U256_ONE ELSE U256_ZERO))
      [] evm_inst = GT -> Some(Constant(idx, IF UGt(a, b) THEN U256_ONE ELSE U256_ZERO))
      [] evm_inst = EQ -> Some(Constant(idx, IF a = b THEN U256_ONE ELSE U256_ZERO))
      [] evm_inst = AND -> Some(Constant(idx, BitAnd(a, b)))
      [] evm_inst = OR -> Some(Constant(idx, BitOr(a, b)))
      [] evm_inst = XOR -> Some(Constant(idx, BitXor(a, b)))
      [] evm_inst = BYTE ->
            IF ULt(a, FromNat(32))
            THEN Some(Constant(idx, BitAnd(ShrBy(b, 8 * (31 - AsSmallNat(a))), FromNat(255))))
            ELSE Some(Constant(idx, U256_ZERO))
      [] evm_inst = SHR ->
            IF ULe(a, USIZE_MAX) THEN Some(Constant(idx, Shr(b, a)))
            ELSE Some(Constant(idx, U256_ZERO))
      [] evm_inst = SHL ->
            IF ULe(a, USIZE_MAX) THEN Some(Constant(idx, Shl(b, a)))
            ELSE Some(Constant(idx, U256_ZERO))
      [] OTHER -> None

\* Fold2Ident that also rewrites 0 - x to x
Fold2IdentSubBothWays(evm_inst, idx, x0, x1) ==
    CASE evm_inst = ADD ->
            IF IsConstVal(x1, U256_ZERO) THEN Some(x0)
            ELSE IF IsConstVal(x0, U256_ZERO) THEN Some(x1)
            ELSE None
      [] evm_inst = SUB ->
            IF IsConstVal(x1, U256_ZERO) THEN Some(x0)
            ELSE IF IsConstVal(x0, U256_ZERO) THEN Some(x1)
            ELSE None
      [] evm_inst = MUL ->
            IF IsConstVal(x1, U256_ONE) THEN Some(x0)
            ELSE IF IsConstVal(x0, U256_ONE) THEN Some(x1)
            ELSE IF IsConstVal(x1, U256_ZERO) THEN Some(Constant(idx, U256_ZERO))
            ELSE IF IsConstVal(x0, U256_ZERO) THEN Some(Constant(idx, U256_ZERO))
            ELSE None
      [] evm_inst = DIV ->
            IF IsConstVal(x1, U256_ZERO) THEN Some(Constant(idx, U256_ZERO))
            ELSE IF IsConstVal(x1, U256_ONE) THEN Some(x0)
            ELSE IF IsConstVal(x0, U256_ZERO) THEN Some(Constant(idx, U256_ZERO))
            ELSE None
      [] evm_inst = EXP ->
            IF IsConstVal(x1, U256_ZERO) THEN Some(Constant(idx, U256_ONE))
            ELSE IF IsConstVal(x1, U256_ONE) THEN Some(x0)
            ELSE IF IsConstVal(x0, U256_ZERO) THEN Some(Constant(idx, U256_ZERO))
            ELSE None
      [] evm_inst = SHR \/ evm_inst = SHL ->
            IF IsConstVal(x0, U256_ZERO) THEN Some(x1) ELSE None
      [] OTHER -> None

\* the `args.len() == 2` arm when not both arguments are constants: the
\* identity rewrites, each match tried in the order of its arms
Fold2Ident(evm_inst, idx, x0, x1) ==
    CASE evm_inst = ADD ->
            IF IsConstVal(x1, U256_ZERO) THEN Some(x0)
            ELSE IF IsConstVal(x0, U256_ZERO) THEN Some(x1)
            ELSE None
      [] evm_inst = SUB ->
            IF IsConstVal(x1, U256_ZERO) THEN Some(x0) ELSE None
      [] evm_inst = MUL ->
            IF IsConstVal(x1, U256_ONE) THEN Some(x0)
            ELSE IF IsConstVal(x0, U256_ONE) THEN Some(x1)
            ELSE IF IsConstVal(x1, U256_ZERO) THEN Some(Constant(idx, U256_ZERO))
            ELSE IF IsConstVal(x0, U256_ZERO) THEN Some(Constant(idx, U256_ZERO))
            ELSE None
      [] evm_inst = DIV ->
            IF IsConstVal(x1, U256_ZERO) THEN Some(Constant(idx, U256_ZERO))
            ELSE IF IsConstVal(x1, U256_ONE) THEN Some(x0)
            ELSE IF IsConstVal(x0, U256_ZERO) THEN Some(Constant(idx, U256_ZERO))
            ELSE None
      [] evm_inst = EXP ->
            IF IsConstVal(x1, U256_ZERO) THEN Some(Constant(idx, U256_ONE))
            ELSE IF IsConstVal(x1, U256_ONE) THEN Some(x0)
            ELSE IF IsConstVal(x0, U256_ZERO) THEN Some(Constant(idx, U256_ZERO))
            ELSE None
      [] evm_inst = SHR \/ evm_inst = SHL ->
            IF IsConstVal(x0, U256_ZERO) THEN Some(x1) ELSE None
      [] OTHER -> None

\* Fold3 that looks at the modulus only
Fold3ModulusOnly(evm_inst, idx, args) ==
    IF IsConst(args[3]) /\ (evm_inst = ADDMOD \/ evm_inst = MULMOD) /\ IsZero(args[3].val)
    THEN Some(Constant(idx, U256_ZERO))
    ELSE None

\* the `args.len() == 3` arm
Fold3(evm_inst, idx, args) ==
    IF IsConst(args[1]) /\ IsConst(args[2]) /\ IsConst(args[3])
    THEN IF evm_inst = ADDMOD \/ evm_inst = MULMOD
         THEN IF ~IsZero(args[3].val) THEN None ELSE Some(Constant(idx, U256_ZERO))
         ELSE None
    ELSE None

\* ConstEvalResult that hands two constants to the fold in the wrong order
ConstEvalResultSwapped(evm_inst, idx, args) ==
    IF Len(args) = 1 THEN Fold1(evm_inst, idx, args)
    ELSE IF Len(args) = 2
    THEN IF IsConst(args[1]) /\ IsConst(args[2])
         THEN Fold2Const(evm_inst, idx, args[2].val, args[1].val)
         ELSE Fold2Ident(evm_inst, idx, args[1], args[2])
    ELSE IF Len(args) = 3 THEN Fold3(evm_inst, idx, args)
    ELSE None

\* const_eval_result
ConstEvalResult(evm_inst, idx, args) ==
    IF Len(args) = 1 THEN Fold1(evm_inst, idx, args)
    ELSE IF Len(args) = 2
    THEN IF IsConst(args[1]) /\ IsConst(args[2])
         THEN Fold2Const(evm_inst, idx, args[1].val, args[2].val)
         ELSE Fold2Ident(evm_inst, idx, args[1], args[2])
    ELSE IF Len(args) = 3 THEN Fold3(evm_inst, idx, args)
    ELSE None

\* FillRet that never reports a constant
FillRetNeverConstant(ret0, nret, idx) ==
    [ret |-> ret0 \o [k \in 1..(nret - Len(ret0)) |-> InstructionRef(idx, Len(ret0) + k - 1)],
     is_constant |-> FALSE]

\* FillRet that does not add the missing results
FillRetNoFill(ret0, nret, idx) == [ret |-> ret0, is_constant |-> Len(ret0) > 0]

\* the end of evaluate_opcode: ret0 holds the folded operand, if any; the
\* missing results become InstructionRefs
FillRet(ret0, nret, idx) ==
    IF Len(ret0) < nret
    THEN [ret |-> ret0 \o [k \in 1..(nret - Len(ret0)) |->
                              InstructionRef(idx, Len(ret0) + k - 1)],
          is_constant |-> FALSE]
    ELSE [ret |-> ret0, is_constant |-> Len(ret0) > 0]

OptionToVec(res) == IF res.some THEN <<res.v>> ELSE <<>>

EvaluateOpcode(evm_inst, idx, args) ==
    FillRet(OptionToVec(ConstEvalResult(evm_inst, idx, args)), InfoRet(evm_inst), idx)

(***************************************************************************)
(* BasicBlock::emulate_bb.  The emulated stack evm_stack is a sequence     *)
(* whose first element is the front of the VecDeque (the top of stack).    *)
(***************************************************************************)
\* evm_stack_initial_len: the number of StackRef placeholders pushed at the start
SentinelCount == 32

InitialEvmStack == [i \in 1..SentinelCount |-> StackRef(0, i - 1)]

PushFront(stack, x) == <<x>> \o stack

\* stack.swap(0, pos)
SwapStack(stack, pos) ==
    [i \in 1..Len(stack) |->
        IF i = 1 THEN stack[pos + 1] ELSE IF i = pos + 1 THEN stack[1] ELSE stack[i]]

\* EmuPushConstant that leaves the PUSH to be executed
EmuPushConstantKept(st, idx, inst) ==
    [st EXCEPT !.evm_stack = PushFront(@, Constant(idx, inst.value.v[1]))]

\* the PUSH / PC arm
EmuPushConstant(st, idx, inst) ==
    LET v == inst.value.v[1]
    IN  [st EXCEPT !.bb.instructions[idx + 1] = [inst EXCEPT !.ignoreable = TRUE],
                   !.evm_stack = PushFront(@, Constant(idx, v))]

\* EmuDup that copies the operand but not the constant it carries
EmuDupNoConstant(st, idx, inst, pos) ==
    LET stack_len == Len(st.evm_stack)
        a == IF pos < stack_len THEN At(st.evm_stack, pos)
             ELSE StackRef(0, pos - stack_len + SentinelCount + st.bb.pops_at_end)
    IN  [st EXCEPT !.bb.instructions[idx + 1] =
                       [inst EXCEPT !.ignoreable = TRUE, !.operands = Some(<<a>>)],
                   !.evm_stack = PushFront(@, a)]

\* EmuDup that leaves the DUP to be executed
EmuDupNotIgnoreable(st, idx, inst, pos) ==
    LET stack_len == Len(st.evm_stack)
        x == IF pos < stack_len THEN At(st.evm_stack, pos)
             ELSE StackRef(0, pos - stack_len + SentinelCount + st.bb.pops_at_end)
    IN  [st EXCEPT !.bb.instructions[idx + 1] = [inst EXCEPT !.operands = Some(<<x>>)],
                   !.evm_stack = PushFront(@, x)]

\* the DUP arm
EmuDup(st, idx, inst, pos) ==
    LET stack_len == Len(st.evm_stack)
    IN  IF pos < stack_len
        THEN LET x  == At(st.evm_stack, pos)
                 i1 == IF IsConst(x)
                       THEN [inst EXCEPT !.ignoreable = TRUE, !.is_constant = TRUE,
                                         !.value = Some(<<x.val>>)]
                       ELSE [inst EXCEPT !.ignoreable = TRUE]
             IN  [st EXCEPT !.bb.instructions[idx + 1] = [i1 EXCEPT !.operands = Some(<<x>>)],
                            !.evm_stack = PushFront(@, x)]
        ELSE LET pos_at_bb_start == pos - stack_len + SentinelCount + st.bb.pops_at_end
                 a == StackRef(0, pos_at_bb_start)
             IN  [st EXCEPT !.bb.instructions[idx + 1] =
                                [inst EXCEPT !.ignoreable = TRUE, !.operands = Some(<<a>>)],
                            !.evm_stack = PushFront(@, a)]

\* EmuSwap that exchanges the entries on the emulated stack only when the
\* deeper one is a placeholder or a constant
EmuSwapSometimes(st, idx, inst, pos) ==
    IF pos < Len(st.evm_stack) /\ At(st.evm_stack, pos).kind /= "InstructionRef"
    THEN [st EXCEPT !.bb.instructions[idx + 1] =
             [inst EXCEPT !.ignoreable = TRUE,
                          !.operands = Some(<<At(st.evm_stack, 0), At(st.evm_stack, pos)>>)],
                    !.evm_stack = SwapStack(@, pos)]
    ELSE [st EXCEPT !.bb.instructions[idx + 1] =
             [inst EXCEPT !.ignoreable = FALSE,
                          !.operands = Some(<<
                              StackRef(0, 0 + st.bb.pops_at_end + SentinelCount),
                              StackRef(0, pos - Len(st.evm_stack) + st.bb.pops_at_end
                                            + SentinelCount)>>)]]

\* the SWAP arm
EmuSwap(st, idx, inst, pos) ==
    LET stack_len == Len(st.evm_stack)
    IN  IF stack_len = 0
        THEN [st EXCEPT !.bb.instructions[idx + 1] =
                 [inst EXCEPT !.ignoreable = FALSE,
                              !.operands = Some(<<
                                  StackRef(0, 0 + st.bb.pops_at_end + SentinelCount),
                                  StackRef(0, pos + st.bb.pops_at_end + SentinelCount)>>)]]
        ELSE IF stack_len > 0 /\ pos >= stack_len
        THEN LET pos_at_bb_start == pos - stack_len + SentinelCount + st.bb.pops_at_end
             IN  [st EXCEPT !.bb.instructions[idx + 1] =
                      [inst EXCEPT !.ignoreable = FALSE,
                                   !.operands = Some(<<Head(st.evm_stack),
                                                       StackRef(0, pos_at_bb_start)>>)],
                            !.evm_stack = PushFront(Tail(@), StackRef(0, pos_at_bb_start))]
        ELSE [st EXCEPT !.bb.instructions[idx + 1] =
                 [inst EXCEPT !.ignoreable = TRUE,
                              !.operands = Some(<<At(st.evm_stack, 0), At(st.evm_stack, pos)>>)],
                        !.evm_stack = SwapStack(@, pos)]

\* EmuPop that does not count a POP from the empty emulated stack
EmuPopNotCounted(st, idx, inst) ==
    [st EXCEPT !.bb.instructions[idx + 1] = [inst EXCEPT !.ignoreable = TRUE, !.operands = None],
               !.evm_stack = IF Len(@) > 0 THEN Tail(@) ELSE @]

\* the POP arm
EmuPop(st, idx, inst) ==
    LET i1 == [inst EXCEPT !.ignoreable = TRUE, !.operands = None]
    IN  IF Len(st.evm_stack) > 0
        THEN [st EXCEPT !.bb.instructions[idx + 1] = i1, !.evm_stack = Tail(@)]
        ELSE [st EXCEPT !.bb.instructions[idx + 1] = i1, !.bb.pops_at_end = @ + 1]

\* the JUMPDEST arm
EmuJumpdest(st, idx, inst) ==
    [st EXCEPT !.bb.instructions[idx + 1] = [inst EXCEPT !.ignoreable = TRUE]]

\* the values of the Constant operands of vvec, in order (the filter_map)
RECURSIVE ConstantValues(_)
ConstantValues(vvec) ==
    IF vvec = <<>> THEN <<>>
    ELSE (IF IsConst(Head(vvec)) THEN <<Head(vvec).val>> ELSE <<>>)
            \o ConstantValues(Tail(vvec))

\* PopArgs that counts the missing arguments from the top of the entry stack
PopArgsFromTop(st, nargs) ==
    [k \in 1..nargs |->
        IF k <= Len(st.evm_stack) THEN st.evm_stack[k]
        ELSE StackRef(0, (k - 1) + st.bb.pops_at_end - Len(st.evm_stack))]

\* PopArgs that forgets the entry slots the block has already consumed
PopArgsNoPops(st, nargs) ==
    [k \in 1..nargs |->
        IF k <= Len(st.evm_stack) THEN st.evm_stack[k]
        ELSE StackRef(0, (k - 1) - Len(st.evm_stack) + SentinelCount)]

\* the arguments popped for an instruction of nargs arguments; those the
\* emulated stack cannot supply refer to the stack before the block
PopArgs(st, nargs) ==
    LET cur_pops_at_end == st.bb.pops_at_end
        cur_stack_len   == Len(st.evm_stack)
    IN  [k \in 1..nargs |->
            IF k <= cur_stack_len THEN st.evm_stack[k]
            ELSE StackRef(0, (k - 1) + cur_pops_at_end - cur_stack_len + SentinelCount)]

\* EmuOtherWith that leaves the operands as the partitioner wrote them
EmuOtherWithKeepOperands(st, idx, inst, args, ev) ==
    LET taken == Min(Len(args), Len(st.evm_stack))
    IN  [st EXCEPT !.bb.instructions[idx + 1] =
                       IF ev.is_constant
                       THEN [inst EXCEPT !.is_constant = TRUE,
                                         !.value = Some(ConstantValues(ev.ret)),
                                         !.ignoreable = TRUE]
                       ELSE inst,
                   !.bb.pops_at_end = @ + (Len(args) - taken),
                   !.evm_stack = Reverse(ev.ret) \o SubSeq(@, taken + 1, Len(@))]

\* what the arm does with the arguments and the oracle's answer ev
EmuOtherWith(st, idx, inst, args, ev) ==
    LET taken == Min(Len(args), Len(st.evm_stack))
        i1 == IF ev.is_constant
              THEN [inst EXCEPT !.is_constant = TRUE,
                                !.value = Some(ConstantValues(ev.ret)),
                                !.ignoreable = TRUE]
              ELSE inst
    IN  [st EXCEPT !.bb.instructions[idx + 1] =
                       IF Len(args) > 0 THEN [i1 EXCEPT !.operands = Some(args)] ELSE i1,
                   !.bb.pops_at_end = @ + (Len(args) - taken),
                   !.evm_stack = Reverse(ev.ret) \o SubSeq(@, taken + 1, Len(@))]

EmuOtherArgs(st, idx, inst, evm_inst, args) ==
    EmuOtherWith(st, idx, inst, args, EvaluateOpcode(evm_inst, idx, args))

\* the arm of all other instructions
EmuOther(st, idx, inst, evm_inst) ==
    EmuOtherArgs(st, idx, inst, evm_inst, PopArgs(st, InfoArgs(evm_inst)))

\* one round of `for idx in 0..self.instructions.len()`;
\* st = [bb, evm_stack, aborted], aborted once `return None` was taken
EmuInst(st, idx, inst, evm_inst) ==
    IF PushesConstant(evm_inst) THEN EmuPushConstant(st, idx, inst)
    ELSE IF IsDup(evm_inst) THEN EmuDup(st, idx, inst, DupPosition(evm_inst))
    ELSE IF IsSwap(evm_inst) THEN EmuSwap(st, idx, inst, SwapPosition(evm_inst))
    ELSE IF evm_inst = POP THEN EmuPop(st, idx, inst)
    ELSE IF evm_inst = JUMPDEST THEN EmuJumpdest(st, idx, inst)
    ELSE EmuOther(st, idx, inst, evm_inst)

EmuStep(st, idx) ==
    IF st.aborted THEN st
    ELSE IF st.bb.instructions[idx + 1].opcode.ok
    THEN EmuInst(st, idx, st.bb.instructions[idx + 1], st.bb.instructions[idx + 1].opcode.byte)
    ELSE [st EXCEPT !.aborted = TRUE]

\* the rounds for idx = lo .. hi, the first half computed before the second
RECURSIVE EmuRounds(_, _, _)
EmuRounds(st0, lo, hi) ==
    IF hi < lo THEN st0
    ELSE IF hi = lo THEN CHOOSE res \in {EmuStep(st, lo) : st \in {st0}} : TRUE
    ELSE LET mid == (lo + hi) \div 2
         IN  CHOOSE res \in {EmuRounds(st, mid + 1, hi) :
                               st \in {EmuRounds(st0, lo, mid)}} : TRUE

\* EmuFinish that forgets the pops of a stack that ended shorter than it began
EmuFinishNoPops(st) ==
    LET len    == Len(st.evm_stack)
        nnew   == IF len > SentinelCount THEN len - SentinelCount ELSE 0
        offset == IF len < SentinelCount THEN SentinelCount - len ELSE 0
        rest   == SubSeq(st.evm_stack, nnew + 1, len)
        sets   == {i \in 1..Len(rest) : rest[i] /= StackRef(0, (i - 1) + offset)}
        added  == [k \in {(i - 1) + offset : i \in sets} |-> rest[k - offset + 1]]
    IN  [bb |-> [st.bb EXCEPT !.stack_sets = IF sets = {} THEN @ ELSE added @@ @],
         returns |-> IF len > SentinelCount
                     THEN Some(SubSeq(st.evm_stack, 1, nnew))
                     ELSE None]

\* EmuFinish that lists the new operands bottom first
EmuFinishBottomFirst(st) ==
    LET len    == Len(st.evm_stack)
        nnew   == IF len > SentinelCount THEN len - SentinelCount ELSE 0
        offset == IF len < SentinelCount THEN SentinelCount - len ELSE 0
        rest   == SubSeq(st.evm_stack, nnew + 1, len)
        sets   == {i \in 1..Len(rest) : rest[i] /= StackRef(0, (i - 1) + offset)}
        added  == [k \in {(i - 1) + offset : i \in sets} |-> rest[k - offset + 1]]
    IN  [bb |-> [st.bb EXCEPT !.pops_at_end = @ + offset,
                              !.stack_sets = IF sets = {} THEN @ ELSE added @@ @],
         returns |-> IF len > SentinelCount
                     THEN Some(Reverse(SubSeq(st.evm_stack, 1, nnew)))
                     ELSE None]

\* the end of emulate_bb: returns, pops_at_end and stack_sets from the final stack
EmuFinish(st) ==
    LET len    == Len(st.evm_stack)
        nnew   == IF len > SentinelCount THEN len - SentinelCount ELSE 0
        offset == IF len < SentinelCount THEN SentinelCount - len ELSE 0
        rest   == SubSeq(st.evm_stack, nnew + 1, len)
        sets   == {i \in 1..Len(rest) : rest[i] /= StackRef(0, (i - 1) + offset)}
        added  == [k \in {(i - 1) + offset : i \in sets} |-> rest[k - offset + 1]]
    IN  [bb |-> [st.bb EXCEPT !.pops_at_end = @ + offset,
                              !.stack_sets = IF sets = {} THEN @ ELSE added @@ @],
         returns |-> IF len > SentinelCount
                     THEN Some(SubSeq(st.evm_stack, 1, nnew))
                     ELSE None]

\* emulate_bb(&mut self) -> Option<Vec<Operand>>: the block as left behind and
\* the value returned
EmuEnd(st) == IF st.aborted THEN [bb |-> st.bb, returns |-> None] ELSE EmuFinish(st)

EmulateBB(bb) ==
    EmuEnd(EmuRounds([bb |-> bb, evm_stack |-> InitialEvmStack, aborted |-> FALSE],
                     0, Len(bb.instructions) - 1))

\* SetReturns that stores the returned operands back to front
SetReturnsReversed(r) ==
    IF r.returns.some THEN [r.bb EXCEPT !.returns = Reverse(r.returns.v)] ELSE r.bb

\* BasicBlock::optimize
\* `if let Some(stack_remainder) = ... { self.returns = stack_remainder... }`
SetReturns(r) == IF r.returns.some THEN [r.bb EXCEPT !.returns = r.returns.v] ELSE r.bb

\* Optimize that also takes back ends_on_invalid
OptimizeClearsInvalid(bb) ==
    IF bb.optimized THEN bb
    ELSE [SetReturns(EmulateBB([bb EXCEPT !.optimized = TRUE])) EXCEPT !.ends_on_invalid = FALSE]

\* Optimize without the early return
OptimizeAgain(bb) == SetReturns(EmulateBB([bb EXCEPT !.optimized = TRUE]))

Optimize(bb) ==
    IF bb.optimized THEN bb
    ELSE SetReturns(EmulateBB([bb EXCEPT !.optimized = TRUE]))

(***************************************************************************)
(* Program::new and Program::optimize as steps.                            *)
(***************************************************************************)
\* one round of `while index < bytecode.len()` of Program::new
\* NewStepWith that counts one instruction per block
NewStepWithOneInstruction(r) ==
    /\ inst_global_index' = inst_global_index + 1
    /\ basic_blocks' = Append(basic_blocks, r.bb)
    /\ index' = r.pc

NewStepWith(r) ==
    /\ inst_global_index' = inst_global_index + Len(r.bb.instructions)
    /\ basic_blocks' = Append(basic_blocks, r.bb)
    /\ index' = r.pc

NewStep ==
    /\ phase = "new"
    /\ index < Len(bytecode)
    /\ NewStepWith(Parse(bytecode, index, inst_global_index))
    /\ UNCHANGED <<bytecode, meta, phase>>

\* the Program literal that ends Program::new
NewFinish ==
    /\ phase = "new"
    /\ ~(index < Len(bytecode))
    /\ meta' = CodeMetaNew(bytecode)
    /\ phase' = "built"
    /\ UNCHANGED <<bytecode, basic_blocks, index, inst_global_index>>

\* a call of the public BasicBlock::optimize on block b of the program
BlockOptimize(b) ==
    /\ phase = "built"
    /\ basic_blocks' = [basic_blocks EXCEPT ![b] = Optimize(@)]
    /\ UNCHANGED <<bytecode, index, inst_global_index, meta, phase>>

\* Program::optimize
ProgramOptimize ==
    /\ phase = "built"
    /\ basic_blocks' = [b \in 1..Len(basic_blocks) |-> Optimize(basic_blocks[b])]
    /\ UNCHANGED <<bytecode, index, inst_global_index, meta, phase>>

Next ==
    \/ NewStep
    \/ NewFinish
    \/ \E b \in 1..Len(basic_blocks) : BlockOptimize(b)
    \/ ProgramOptimize

(***************************************************************************)
(* Inputs.  The program is a pure function of the byte string handed to    *)
(* Program::new; the initial states range over bounded sets of inputs.     *)
(***************************************************************************)
\* longest input of the exhaustive family
MaxLen == 3

\* longest tail after a run of POPs
MaxTail == 2

\* how far the runs of POPs go past the placeholders of the emulated stack
DeepExtra == 1

\* 12 is no opcode
CodeBytes == {STOP, ADD, MUL, 12, POP, JUMP, PC, JUMPDEST, PUSH1, DUP1, DUP1 + 1, SWAP1}

\* every byte string over CodeBytes up to MaxLen bytes
ShortInputs == SeqsUpTo(CodeBytes, MaxLen)

\* blocks that reach the bottom of the emulated stack and below it
DeepTailBytes == {STOP, ADD, 12, POP, PC, DUP1 + 1, SWAP1, SWAP1 + 1}

DeepInputs ==
    {Repeat(POP, k) \o t :
        k \in (SentinelCount - 2)..(SentinelCount + DeepExtra),
        t \in SeqsUpTo(DeepTailBytes, MaxTail)}

\* a PC whose value a SWAP1 exchanges with the slot below: a slot of the
\* emulated stack, or one below it when all 32 placeholders were popped; then
\* an instruction that reads both
DeepSwapInputs ==
    {Repeat(POP, k) \o <<PC, SWAP1, op>> :
        k \in {SentinelCount - 1, SentinelCount}, op \in {ADD, JUMP}}

\* most instructions of the instruction-wise family
MaxChunks == 3

\* whole instructions: PUSH1 0, PUSH1 1, PUSH1 0x5b, PUSH2 0x0100, and one-byte ones
Chunks ==
    {<<PUSH1, 0>>, <<PUSH1, 1>>, <<PUSH1, JUMPDEST>>, <<PUSH1 + 1, 1, 0>>,
     <<ADD>>, <<SUB>>, <<JUMP>>, <<JUMPDEST>>}

RECURSIVE Flatten(_)
Flatten(ss) == IF ss = <<>> THEN <<>> ELSE Head(ss) \o Flatten(Tail(ss))

\* every sequence of up to MaxChunks instructions of Chunks
ChunkInputs == {Flatten(cs) : cs \in SeqsUpTo(Chunks, MaxChunks)}

\* the end-to-end scenarios: 600456005b600456, 60ff56, 60ff8056, 600160020156,
\* 60020156, 8056, 5000, 500100, 5060420100
ScenarioInputs ==
    {<<PUSH1, 4, JUMP, STOP, JUMPDEST, PUSH1, 4, JUMP>>,
     <<PUSH1, 255, JUMP>>,
     <<PUSH1, 255, DUP1, JUMP>>,
     <<PUSH1, 1, PUSH1, 2, ADD, JUMP>>,
     <<PUSH1, 2, ADD, JUMP>>,
     <<DUP1, JUMP>>,
     <<POP, STOP>>,
     <<POP, ADD, STOP>>,
     <<POP, PUSH1, 66, ADD, STOP>>}

InitWith(inputs) ==
    /\ bytecode \in inputs
    /\ basic_blocks = <<>>
    /\ index = 0
    /\ inst_global_index = 0
    /\ meta = [jumpdests |-> <<>>, iscode |-> <<>>]
    /\ phase = "new"

Init ==
    InitWith(ShortInputs \cup DeepInputs \cup DeepSwapInputs \cup ChunkInputs
                 \cup ScenarioInputs)

Spec == Init /\ [][Next]_vars

\* the words the folds are tried on: 0, 1, 2, 3, 31, 32, 255, 256, 2^64 - 1,
\* 2^64, 2^255 and 2^256 - 1
FoldWords ==
    {FromNat(0), FromNat(1), FromNat(2), FromNat(3), FromNat(31), FromNat(32),
     FromNat(255), FromNat(256), USIZE_MAX,
     [i \in 1..9 |-> IF i = 9 THEN 1 ELSE 0],
     [i \in 1..U256Bytes |-> IF i = U256Bytes THEN 128 ELSE 0],
     U256_MAX}

\* the shortest PUSH of the word w
PushOf(w) == IF w = <<>> THEN <<PUSH1, 0>> ELSE <<PUSH1 + Len(w) - 1>> \o Reverse(w)

FoldOps1 == {ISZERO, NOT}

FoldOps2 == {ADD, MUL, SUB, DIV, MOD, LT, GT, EQ, AND, OR, XOR, BYTE, SHL, SHR}

\* the exponents EXP is tried on: the words of FoldWords up to 256
FoldExponents == {w \in FoldWords : Len(w) <= 1 \/ w = FromNat(256)}

\* PUSH b; PUSH a; op and PUSH a; op: a is the top of the stack when op runs
FoldInputs ==
    {PushOf(b) \o PushOf(a) \o <<op>> : a \in FoldWords, b \in FoldWords, op \in FoldOps2}
        \cup {PushOf(b) \o PushOf(a) \o <<EXP>> : a \in FoldWords, b \in FoldExponents}
        \cup {PushOf(a) \o <<op>> : a \in FoldWords, op \in FoldOps1}

InitFold == InitWith(FoldInputs)

SpecFold == InitFold /\ [][Next]_vars

\* longest bytecode made of pushes and immediate bytes
MaxPushLen == 4

\* STOP, the undecodable 0x0c, 255, JUMPDEST, PUSH1, PUSH2 and PUSH32
PushBytesAlphabet == {STOP, 12, 255, JUMPDEST, PUSH1, PUSH1 + 1, PUSH32}

\* bytecodes in which immediates are cut off by the end of the code, end
\* with the code, or contain bytes that look like opcodes
PushInputs == SeqsUpTo(PushBytesAlphabet, MaxPushLen)

InitPush == InitWith(PushInputs)

SpecPush == InitPush /\ [][Next]_vars

\* longest bytecode of the inputs Program::new is run to its end on
MaxTermLen == 4

\* STOP, the undecodable 0x0c, JUMPDEST, PUSH1 and PUSH2
TermInputs == SeqsUpTo({STOP, 12, JUMPDEST, PUSH1, PUSH1 + 1}, MaxTermLen)

InitTerm == InitWith(TermInputs)

\* Program::new is one sequential loop: a round that can be taken is taken,
\* and the Program is built once the loop is left
SpecTermFair == InitTerm /\ [][Next]_vars /\ WF_vars(NewStep) /\ WF_vars(NewFinish)

\* how many POPs more than there are placeholders
PopExtra == 2

\* what follows the POPs: STOP, nothing, an undecodable byte and a POP in
\* the next block, a pushed value that is popped again, a copy that is
\* popped, two ADDs, SWAP2 and ADD, DUP2 and DUP1 and MUL, CALL (241)
PopTails ==
    {<<STOP>>, <<>>, <<12, POP>>, <<PC, POP, STOP>>, <<DUP1, POP, POP, STOP>>,
     <<ADD, ADD, STOP>>, <<SWAP1 + 1, ADD>>, <<DUP1 + 1, DUP1, MUL, STOP>>, <<241>>}

\* blocks of 0 to 32 + PopExtra POPs
PopInputs ==
    {Repeat(POP, k) \o t : k \in 0..(SentinelCount + PopExtra), t \in PopTails}

InitPops == InitWith(PopInputs)

SpecPops == InitPops /\ [][Next]_vars

\* most instructions put in front of the instruction handed to the oracle
MaxPrefix == 3

\* what comes before: PUSH1 0, PUSH1 1, PUSH1 2, or DUP5, the copy of an
\* entry value the analysis knows nothing about
PrefixChunks == {<<PUSH1, 0>>, <<PUSH1, 1>>, <<PUSH1, 2>>, <<DUP1 + 4>>}

\* the instructions handed to the oracle: the arithmetic, comparison and bit
\* operations, and STOP, SHA3, CALLDATALOAD, CODESIZE, MLOAD, MSTORE, JUMP,
\* JUMPI, LOG0, LOG4, CALL (241) and RETURN
OracleOps ==
    (ADD..SIGNEXTEND) \cup (LT..SAR)
        \cup {STOP, SHA3, CALLDATALOAD, CODESIZE, MLOAD, MSTORE, JUMP, JUMPI,
              LOG0, LOG4, 241, RETURN}

\* a prefix, the instruction, and possibly a JUMP that consumes its result;
\* the instruction applied to a pushed word and its copy, and to the code size
\* and a pushed word
OracleInputs ==
    {Flatten(cs) \o <<op>> \o t :
        cs \in SeqsUpTo(PrefixChunks, MaxPrefix), op \in OracleOps, t \in {<<>>, <<JUMP>>}}
    \cup {<<PUSH1, w, DUP1, op>> : w \in {0, 1, 2}, op \in OracleOps}
    \cup {<<CODESIZE, PUSH1, w, op>> : w \in {0, 1, 2}, op \in OracleOps}

InitOracle == InitWith(OracleInputs)

SpecOracle == InitOracle /\ [][Next]_vars

(***************************************************************************)
(* Properties of the partitioner and the scanner.                          *)
(***************************************************************************)
\* the byte offset right after instruction ins and its PUSH immediate
InstrEnd(ins) == ins.address + 1 + (IF ins.opcode.ok THEN PushBytes(ins.opcode.byte) ELSE 0)

LastInstr(bb) == bb.instructions[Len(bb.instructions)]

\* the byte offset where the block's byte range ends
BlockEnd(bb) == InstrEnd(LastInstr(bb))

\* the instructions of all blocks, in block order
RECURSIVE AllInstructions(_)
AllInstructions(blocks) ==
    IF blocks = <<>> THEN <<>>
    ELSE Head(blocks).instructions \o AllInstructions(Tail(blocks))

\* the offsets a left-to-right scan from i stops at: each opcode byte, PUSH
\* immediates skipped
RECURSIVE ScanFrom(_, _)
ScanFrom(code, i) ==
    IF i >= Len(code) THEN {}
    ELSE {i} \cup ScanFrom(code, i + 1 + PushBytes(At(code, i)))

\* the offsets that lie in the immediate of a PUSH the scan stops at
ImmediateOffsets(code) ==
    {j \in 0..(Len(code) - 1) :
        \E i \in ScanFrom(code, 0) : i < j /\ j <= i + PushBytes(At(code, i))}

\* C1: the blocks tile the input: the first starts at 0, each next one starts
\* where the previous one stopped, the construction continues from where the
\* last one stopped and ends at or after the end of the code, inside a block
\* each instruction starts where the previous one and its immediate end, and
\* all instruction addresses in block order are strictly increasing
C1_Tiling ==
    /\ \A b \in 1..Len(basic_blocks) :
          /\ basic_blocks[b].instructions /= <<>>
          /\ basic_blocks[b].address = basic_blocks[b].instructions[1].address
          /\ basic_blocks[b].address = IF b = 1 THEN 0 ELSE BlockEnd(basic_blocks[b - 1])
          /\ basic_blocks[b].address < Len(bytecode)
          /\ \A p \in 2..Len(basic_blocks[b].instructions) :
                basic_blocks[b].instructions[p].address
                    = InstrEnd(basic_blocks[b].instructions[p - 1])
    /\ index = IF basic_blocks = <<>> THEN 0 ELSE BlockEnd(basic_blocks[Len(basic_blocks)])
    /\ phase = "built" => index >= Len(bytecode)
    /\ \A k \in 2..Len(AllInstructions(basic_blocks)) :
          AllInstructions(basic_blocks)[k - 1].address < AllInstructions(basic_blocks)[k].address

\* a finished program of several blocks whose last instruction is a PUSH cut
\* short by the end of the code
C1_Witness ==
    /\ phase = "built"
    /\ Len(basic_blocks) >= 2
    /\ index > Len(bytecode)
    /\ \E b \in 1..Len(basic_blocks) : Len(basic_blocks[b].instructions) >= 2

\* C2: a byte is flagged as jump destination only if it is 0x5B, the scan
\* stops at it and it is flagged as an instruction; a byte inside a PUSH
\* immediate is neither a jump destination nor an instruction
C2_JumpdestSound ==
    phase = "built" =>
        /\ \A i \in 0..(Len(bytecode) - 1) :
              IsValidJumpdest(meta, i) =>
                  /\ At(bytecode, i) = JUMPDEST
                  /\ i \in ScanFrom(bytecode, 0)
                  /\ IsInstruction(meta, i)
        /\ \A j \in ImmediateOffsets(bytecode) :
              ~IsValidJumpdest(meta, j) /\ ~IsInstruction(meta, j)

\* a 0x5B inside a PUSH immediate next to a real jump destination
C2_Witness ==
    /\ phase = "built"
    /\ \E j \in ImmediateOffsets(bytecode) : At(bytecode, j) = JUMPDEST
    /\ \E i \in 0..(Len(bytecode) - 1) : IsValidJumpdest(meta, i)

\* the instruction ends its block by the partitioner's rules
EndsBlock(code, ins) ==
    \/ ~ins.opcode.ok
    \/ Stops(ins.opcode.byte)
    \/ ins.opcode.byte \in {JUMP, JUMPI}
    \/ InstrEnd(ins) < Len(code) /\ At(code, InstrEnd(ins)) = JUMPDEST
    \/ InstrEnd(ins) >= Len(code)

\* C9: an instruction is the last of its block exactly if it halts, jumps, is
\* followed (after its immediate) by a JUMPDEST, failed to decode or is the
\* last instruction of the code; every block has an instruction
C9_BlockEnds ==
    \A b \in 1..Len(basic_blocks) :
        /\ Len(basic_blocks[b].instructions) >= 1
        /\ \A p \in 1..Len(basic_blocks[b].instructions) :
              (p = Len(basic_blocks[b].instructions))
                  <=> EndsBlock(bytecode, basic_blocks[b].instructions[p])

\* a block of two instructions closed after a PUSH because the byte after
\* the immediate is a JUMPDEST
C9_Witness ==
    /\ phase = "built"
    /\ \E b \in 1..Len(basic_blocks) :
          /\ Len(basic_blocks[b].instructions) >= 2
          /\ IsPush(LastInstr(basic_blocks[b]).opcode.byte)
          /\ BlockEnd(basic_blocks[b]) < Len(bytecode)

\* C10: global_idx counts the instructions of the program from 0 in block
\* order, without gap or repetition, and the counter kept by Program::new is
\* the number of instructions so far
C10_GlobalIdx ==
    /\ \A k \in 1..Len(AllInstructions(basic_blocks)) :
          AllInstructions(basic_blocks)[k].global_idx = k - 1
    /\ inst_global_index = Len(AllInstructions(basic_blocks))

\* two blocks, the first of which has more than one instruction
C10_Witness ==
    /\ Len(basic_blocks) >= 2
    /\ Len(basic_blocks[1].instructions) >= 2
    /\ basic_blocks[2].instructions[1].global_idx = Len(basic_blocks[1].instructions)

(***************************************************************************)
(* A reference stack machine: the original opcodes of a block run one by   *)
(* one on a stack of words, the first element being the top of the stack.  *)
(***************************************************************************)
\* depth of the entry stack the reference machine starts from
EntryDepth == 64

\* the word in entry slot k (slot 0 is the top)
EntryValue(k) == FromNat(1000 + 7 * k)

EntryStack == [i \in 1..EntryDepth |-> EntryValue(i - 1)]

\* the word an instruction that reads the environment leaves as result r
EnvValue(address, r) == FromNat(5000 + 11 * address + r)

\* the word whose bit k is f[k]
FromBits(f) ==
    Norm([i \in 1..U256Bytes |->
            f[8 * (i - 1)] + 2 * f[8 * (i - 1) + 1] + 4 * f[8 * (i - 1) + 2]
            + 8 * f[8 * (i - 1) + 3] + 16 * f[8 * (i - 1) + 4] + 32 * f[8 * (i - 1) + 5]
            + 64 * f[8 * (i - 1) + 6] + 128 * f[8 * (i - 1) + 7]])

RefBool(p) == IF p THEN U256_ONE ELSE U256_ZERO

\* the opcodes the reference machine computes on words
ArithOps == {ADD, MUL, SUB, DIV, MOD, EXP, LT, GT, EQ, ISZERO, AND, OR, XOR, NOT, BYTE, SHL, SHR}

\* the EVM's result of op on the words a (the top of the stack) and b, in
\* unsigned arithmetic modulo 2^256
RefArith(op, a, b) ==
    CASE op = ADD -> OverflowingAdd(a, b)
      [] op = MUL -> OverflowingMul(a, b)
      [] op = SUB -> OverflowingSub(a, b)
      [] op = DIV -> IF b = U256_ZERO THEN U256_ZERO ELSE UDiv(a, b)
      [] op = MOD -> IF b = U256_ZERO THEN U256_ZERO ELSE URem(a, b)
      [] op = EXP -> OverflowingPow(a, b)
      [] op = LT -> RefBool(Cmp(a, b) < 0)
      [] op = GT -> RefBool(Cmp(a, b) > 0)
      [] op = EQ -> RefBool(a = b)
      [] op = ISZERO -> RefBool(a = U256_ZERO)
      [] op = AND -> FromBits([k \in 0..(U256Bits - 1) |-> Bit(a, k) * Bit(b, k)])
      [] op = OR -> FromBits([k \in 0..(U256Bits - 1) |-> Max(Bit(a, k), Bit(b, k))])
      [] op = XOR -> FromBits([k \in 0..(U256Bits - 1) |-> (Bit(a, k) + Bit(b, k)) % 2])
      [] op = NOT -> FromBits([k \in 0..(U256Bits - 1) |-> 1 - Bit(a, k)])
      [] op = BYTE ->
            IF Cmp(a, FromNat(U256Bytes)) >= 0 THEN U256_ZERO
            ELSE FromNat(Limb(b, U256Bytes - AsSmallNat(a)))
      [] op = SHL ->
            IF Cmp(a, FromNat(U256Bits)) >= 0 THEN U256_ZERO
            ELSE OverflowingMul(b, OverflowingPow(FromNat(2), a))
      [] op = SHR ->
            IF Cmp(a, FromNat(U256Bits)) >= 0 THEN U256_ZERO
            ELSE UDiv(b, OverflowingPow(FromNat(2), a))

\* result r of the instruction op at address, applied to the words args
RefResult(op, address, r, args) ==
    IF op \in ArithOps
    THEN RefArith(op, args[1], IF Len(args) >= 2 THEN args[2] ELSE U256_ZERO)
    ELSE EnvValue(address, r)

\* one instruction of the reference machine; an undecodable byte halts it
RefStep(code, stack, ins) ==
    IF ~ins.opcode.ok THEN stack
    ELSE IF IsPush(ins.opcode.byte)
    THEN <<PushValue(code, ins.address, PushBytes(ins.opcode.byte))>> \o stack
    ELSE IF ins.opcode.byte = PC THEN <<FromNat(ins.address)>> \o stack
    ELSE IF IsDup(ins.opcode.byte) THEN <<stack[DupPosition(ins.opcode.byte) + 1]>> \o stack
    ELSE IF IsSwap(ins.opcode.byte) THEN SwapStack(stack, SwapPosition(ins.opcode.byte))
    ELSE [r \in 1..InfoRet(ins.opcode.byte) |->
             RefResult(ins.opcode.byte, ins.address, r - 1,
                       SubSeq(stack, 1, InfoArgs(ins.opcode.byte)))]
         \o SubSeq(stack, InfoArgs(ins.opcode.byte) + 1, Len(stack))

\* the reference machine run over instructions lo..hi of a block
RECURSIVE RefRounds(_, _, _, _, _)
RefRounds(code, instrs, stack0, lo, hi) ==
    IF hi < lo THEN stack0
    ELSE IF hi = lo THEN CHOOSE res \in {RefStep(code, st, instrs[lo]) : st \in {stack0}} : TRUE
    ELSE CHOOSE res \in {RefRounds(code, instrs, st, ((lo + hi) \div 2) + 1, hi) :
                           st \in {RefRounds(code, instrs, stack0, lo, (lo + hi) \div 2)}} : TRUE

\* the stack the reference machine leaves when it runs block bb from EntryStack
RefRun(code, bb) == RefRounds(code, bb.instructions, EntryStack, 1, Len(bb.instructions))

\* the word an operand of block bb stands for at run time: a Constant its
\* value, StackRef(0, k) the entry slot k, InstructionRef(j, r) the result r
\* of instruction j on what its recorded operands stand for
RECURSIVE Denote(_, _)
Denote(bb, x) ==
    IF x.kind = "Constant" THEN x.val
    ELSE IF x.kind = "StackRef" THEN EntryStack[x.off + 1]
    ELSE IF x.kind = "InstructionRef"
    THEN RefResult(bb.instructions[x.ref + 1].opcode.byte,
                   bb.instructions[x.ref + 1].address, x.off,
                   [i \in 1..Len(bb.instructions[x.ref + 1].operands.v) |->
                       Denote(bb, bb.instructions[x.ref + 1].operands.v[i])])
    ELSE <<-1>>

\* the stack the summary of bb produces from EntryStack: each stack_sets[k]
\* written into entry slot k, pops_at_end entry slots discarded, returns put
\* on top, returns[0] topmost
SummaryRun(bb) ==
    [i \in 1..Len(bb.returns) |-> Denote(bb, bb.returns[i])]
    \o SubSeq([k \in 1..EntryDepth |->
                 IF (k - 1) \in DOMAIN bb.stack_sets
                 THEN Denote(bb, bb.stack_sets[k - 1])
                 ELSE EntryStack[k]],
              bb.pops_at_end + 1, EntryDepth)

\* the block as the partitioner produced it
AsParsed(code, bb) == Parse(code, bb.address, bb.instructions[1].global_idx).bb

\* the emulation of bb ran to the end of the block
Emulated(bb) == bb.optimized /\ ~bb.ends_on_invalid

Blocks == 1..Len(basic_blocks)

(***************************************************************************)
(* Properties of the optimizer.                                            *)
(***************************************************************************)
\* every SWAP of bb was carried out on the emulated stack, none is left to be
\* executed as an instruction
SwapsResolved(bb) ==
    \A i \in 1..Len(bb.instructions) :
        IsSwap(bb.instructions[i].opcode.byte) => bb.instructions[i].ignoreable

\* C3: for every optimized block (emulated to its end, its SWAPs carried out
\* by the emulator), applying the summary (stack_sets written into the entry
\* slots, pops_at_end entry slots discarded, returns put on top) to the entry
\* stack gives the stack the reference machine leaves after the block's
\* original opcodes, also for blocks that consume more than the 32
\* placeholder slots
C3_SummaryReproduces ==
    \A b \in Blocks :
        (Emulated(basic_blocks[b]) /\ SwapsResolved(basic_blocks[b])) =>
            SummaryRun(basic_blocks[b]) = RefRun(bytecode, basic_blocks[b])

\* C4 as stated: for any block, after optimize, len(returns) - pops_at_end is
\* the net stack delta of the original opcodes run on a deep enough stack
C4_NetEffectAnyBlock ==
    \A b \in Blocks :
        basic_blocks[b].optimized =>
            Len(basic_blocks[b].returns) - basic_blocks[b].pops_at_end
                = Len(RefRun(bytecode, basic_blocks[b])) - EntryDepth

\* C4: for any block without an undecodable instruction, after optimize,
\* len(returns) - pops_at_end is the net stack delta of the original opcodes
\* run on a deep enough stack
C4_NetEffect ==
    \A b \in Blocks :
        Emulated(basic_blocks[b]) =>
            Len(basic_blocks[b].returns) - basic_blocks[b].pops_at_end
                = Len(RefRun(bytecode, basic_blocks[b])) - EntryDepth

\* an emulated block that consumed more than the 32 placeholder slots and one
\* that left new values on the stack
C4_Witness ==
    /\ \E b \in Blocks :
          Emulated(basic_blocks[b]) /\ basic_blocks[b].pops_at_end > SentinelCount
    /\ \E b \in Blocks :
          Emulated(basic_blocks[b]) /\ Len(basic_blocks[b].returns) >= 1

\* C5: a call of optimize on a block that is already optimized changes
\* nothing: instructions, returns, stack_sets, pops_at_end and optimized stay
\* as the first call left them
C5_Idempotent ==
    [][\A b \in Blocks :
          basic_blocks[b].optimized =>
              /\ b <= Len(basic_blocks')
              /\ basic_blocks'[b] = basic_blocks[b]]_vars

\* an optimized block whose summary is not the partitioner's empty one
C5_Witness ==
    \E b \in Blocks :
        /\ basic_blocks[b].optimized
        /\ basic_blocks[b].pops_at_end > 0
        /\ DOMAIN basic_blocks[b].stack_sets /= {}
        /\ \E i \in 1..Len(basic_blocks[b].instructions) :
              basic_blocks[b].instructions[i].ignoreable

\* C6: optimize on a block with an undecodable instruction leaves every field
\* but optimized as the partitioner produced it, and sets optimized
C6_Untouched ==
    \A b \in Blocks :
        (basic_blocks[b].optimized /\ basic_blocks[b].ends_on_invalid) =>
            basic_blocks[b] = [AsParsed(bytecode, basic_blocks[b]) EXCEPT !.optimized = TRUE]

\* the operand x of the instruction at local index n is in final form
FinalOperand(x, n) ==
    \/ x.kind = "Constant"
    \/ x.kind = "StackRef" /\ x.ref = 0
    \/ x.kind = "InstructionRef" /\ x.ref < n

\* C8: after emulation of a block, every operand of every non-ignoreable
\* instruction at local index n is a Constant, a StackRef(0, *) or an
\* InstructionRef(j, *) with j < n
C8_FinalOperands ==
    \A b \in Blocks :
        basic_blocks[b].optimized =>
            \A i \in 1..Len(basic_blocks[b].instructions) :
                (~basic_blocks[b].instructions[i].ignoreable
                    /\ basic_blocks[b].instructions[i].operands.some) =>
                    \A k \in 1..Len(basic_blocks[b].instructions[i].operands.v) :
                        FinalOperand(basic_blocks[b].instructions[i].operands.v[k], i - 1)

\* an emulated block with a non-ignoreable instruction at a local index above
\* 0 that reads the result of an earlier instruction and an entry slot
C8_Witness ==
    \E b \in Blocks :
        /\ Emulated(basic_blocks[b])
        /\ \E i \in 2..Len(basic_blocks[b].instructions) :
              /\ ~basic_blocks[b].instructions[i].ignoreable
              /\ basic_blocks[b].instructions[i].operands.some
              /\ \E k \in 1..Len(basic_blocks[b].instructions[i].operands.v) :
                    basic_blocks[b].instructions[i].operands.v[k].kind = "InstructionRef"
              /\ \E k \in 1..Len(basic_blocks[b].instructions[i].operands.v) :
                    basic_blocks[b].instructions[i].operands.v[k].kind = "StackRef"

\* ins was folded from constant arguments by one of the opcodes the
\* reference machine computes
FoldedFromConstants(ins) ==
    /\ ins.is_constant
    /\ ins.opcode.ok
    /\ ins.opcode.byte \in ArithOps
    /\ ins.operands.some
    /\ \A k \in 1..Len(ins.operands.v) : IsConst(ins.operands.v[k])

\* the value the reference machine computes from the arguments of ins
RefValueOf(ins) ==
    RefArith(ins.opcode.byte, ins.operands.v[1].val,
             IF Len(ins.operands.v) >= 2 THEN ins.operands.v[2].val ELSE U256_ZERO)

\* C7: the value recorded for an instruction folded from constant arguments
\* by ISZERO, NOT, ADD, MUL, SUB, DIV, MOD, EXP, LT, GT, EQ, AND, OR, XOR,
\* BYTE, SHL or SHR is the reference machine's result on the same arguments
\* (the first argument is the top of the stack), modulo 2^256
C7_FoldedValues ==
    \A b \in Blocks :
        basic_blocks[b].optimized =>
            \A i \in 1..Len(basic_blocks[b].instructions) :
                FoldedFromConstants(basic_blocks[b].instructions[i]) =>
                    basic_blocks[b].instructions[i].value
                        = Some(<<RefValueOf(basic_blocks[b].instructions[i])>>)

\* a SHL folded with a shift count of 2^64 - 1 applied to 2^256 - 1, the
\* largest count the fold hands to the shift
C7_Witness ==
    \E b \in Blocks :
        /\ basic_blocks[b].optimized
        /\ \E i \in 1..Len(basic_blocks[b].instructions) :
              /\ FoldedFromConstants(basic_blocks[b].instructions[i])
              /\ basic_blocks[b].instructions[i].opcode.byte = SHL
              /\ basic_blocks[b].instructions[i].operands.v[1].val = USIZE_MAX
              /\ basic_blocks[b].instructions[i].operands.v[2].val = U256_MAX
              /\ basic_blocks[b].instructions[i].value = Some(<<U256_ZERO>>)

\* the reference stack right before instruction i of bb
RefBefore(code, bb, i) == RefRounds(code, bb.instructions, EntryStack, 1, i - 1)

\* the position (1 = top) of the reference stack that operand k of ins reads
ReadPosition(ins, k) ==
    IF IsDup(ins.opcode.byte) THEN DupPosition(ins.opcode.byte) + 1 ELSE k

NoSwaps(bb) ==
    \A i \in 1..Len(bb.instructions) :
        bb.instructions[i].opcode.ok => ~IsSwap(bb.instructions[i].opcode.byte)

\* every StackRef operand of instruction i of bb names an entry slot that
\* holds the word the reference machine reads there (the entry words differ
\* from slot to slot)
StackRefsRight(bb, i, stack) ==
    \A k \in 1..Len(bb.instructions[i].operands.v) :
        bb.instructions[i].operands.v[k].kind = "StackRef" =>
            /\ bb.instructions[i].operands.v[k].ref = 0
            /\ EntryValue(bb.instructions[i].operands.v[k].off)
                   = stack[ReadPosition(bb.instructions[i], k)]

\* C11: in an emulated block without SWAPs, every StackRef(0, o) operand that
\* the emulator recorded for a DUP or a non-stack instruction names the entry
\* slot o whose word the reference machine reads at that instruction, for
\* slots among the 32 placeholders and for slots below them
C11_StackRefs ==
    \A b \in Blocks :
        (Emulated(basic_blocks[b]) /\ NoSwaps(basic_blocks[b])) =>
            \A i \in 1..Len(basic_blocks[b].instructions) :
                basic_blocks[b].instructions[i].operands.some =>
                    StackRefsRight(basic_blocks[b], i, RefBefore(bytecode, basic_blocks[b], i))

\* a non-stack instruction that read an entry slot below the placeholders
\* after the block had consumed more than 32 entry slots
C11_Witness ==
    \E b \in Blocks :
        /\ Emulated(basic_blocks[b]) /\ NoSwaps(basic_blocks[b])
        /\ \E i \in 1..Len(basic_blocks[b].instructions) :
              /\ basic_blocks[b].instructions[i].opcode.byte = ADD
              /\ basic_blocks[b].instructions[i].operands.some
              /\ basic_blocks[b].instructions[i].operands.v[1] = StackRef(0, SentinelCount + 1)

(***************************************************************************)
(* The reference machine on producers: each stack cell holds the local     *)
(* index of the PUSH or PC that made its value, copies included, or        *)
(* -1 for any other value.                                                 *)
(***************************************************************************)
EntryProducers == [i \in 1..EntryDepth |-> -1]

\* the instruction ins at local index idx
ProducerStep(stack, ins, idx) ==
    IF ~ins.opcode.ok THEN stack
    ELSE IF PushesConstant(ins.opcode.byte) THEN <<idx>> \o stack
    ELSE IF IsDup(ins.opcode.byte) THEN <<stack[DupPosition(ins.opcode.byte) + 1]>> \o stack
    ELSE IF IsSwap(ins.opcode.byte) THEN SwapStack(stack, SwapPosition(ins.opcode.byte))
    ELSE [r \in 1..InfoRet(ins.opcode.byte) |-> -1]
         \o SubSeq(stack, InfoArgs(ins.opcode.byte) + 1, Len(stack))

RECURSIVE ProducerRounds(_, _, _, _)
ProducerRounds(instrs, stack0, lo, hi) ==
    IF hi < lo THEN stack0
    ELSE IF hi = lo
    THEN CHOOSE res \in {ProducerStep(st, instrs[lo], lo - 1) : st \in {stack0}} : TRUE
    ELSE CHOOSE res \in {ProducerRounds(instrs, st, ((lo + hi) \div 2) + 1, hi) :
                           st \in {ProducerRounds(instrs, stack0, lo, (lo + hi) \div 2)}} : TRUE

\* the producers on the reference stack right before instruction i of bb
ProducersBefore(bb, i) == ProducerRounds(bb.instructions, EntryProducers, 1, i - 1)

\* the word a PUSH or PC instruction puts on the stack
PushedWord(code, ins) ==
    IF IsPush(ins.opcode.byte)
    THEN PushValue(code, ins.address, PushBytes(ins.opcode.byte))
    ELSE FromNat(ins.address)

\* the operand a value pushed at local index p is handed on as
PushedOperand(code, bb, p) == Constant(p, PushedWord(code, bb.instructions[p + 1]))

\* instruction i of bb records every pushed value it reads as the operand
\* of its PUSH, and a DUP of such a value carries the constant
PushedValuesRight(code, bb, i, producers) ==
    /\ \A k \in 1..Len(bb.instructions[i].operands.v) :
          producers[ReadPosition(bb.instructions[i], k)] /= -1 =>
              bb.instructions[i].operands.v[k]
                  = PushedOperand(code, bb, producers[ReadPosition(bb.instructions[i], k)])
    /\ (IsDup(bb.instructions[i].opcode.byte)
            /\ producers[DupPosition(bb.instructions[i].opcode.byte) + 1] /= -1) =>
          /\ bb.instructions[i].ignoreable
          /\ bb.instructions[i].is_constant
          /\ bb.instructions[i].value
                = Some(<<bb.instructions[i].operands.v[1].val>>)

\* instruction i of bb reads the stack and records what it read
RecordsOperands(bb, i) ==
    /\ bb.instructions[i].opcode.ok
    /\ bb.instructions[i].operands.some
    /\ ~IsSwap(bb.instructions[i].opcode.byte)

\* C12: in an emulated block, the value of a PUSH or PC at local index p
\* reaches every later DUP and non-stack instruction that reads it, directly
\* or through copies made by DUPs, as the operand Constant(p, v); such a DUP
\* is ignoreable, is_constant and has value [v]; the PUSH or PC itself is
\* ignoreable
C12_PushedConstants ==
    \A b \in Blocks :
        Emulated(basic_blocks[b]) =>
            \A i \in 1..Len(basic_blocks[b].instructions) :
                /\ PushesConstant(basic_blocks[b].instructions[i].opcode.byte) =>
                      basic_blocks[b].instructions[i].ignoreable
                /\ RecordsOperands(basic_blocks[b], i) =>
                      PushedValuesRight(bytecode, basic_blocks[b], i,
                                        ProducersBefore(basic_blocks[b], i))

\* a pushed value copied by a DUP whose copy is copied by a second DUP
C12_Witness ==
    \E b \in Blocks :
        /\ Emulated(basic_blocks[b])
        /\ Len(basic_blocks[b].instructions) >= 3
        /\ PushesConstant(basic_blocks[b].instructions[1].opcode.byte)
        /\ IsDup(basic_blocks[b].instructions[2].opcode.byte)
        /\ IsDup(basic_blocks[b].instructions[3].opcode.byte)
        /\ basic_blocks[b].instructions[3].operands
              = Some(<<PushedOperand(bytecode, basic_blocks[b], 0)>>)
        /\ basic_blocks[b].instructions[3].is_constant

\* instruction i is the last of bb, one the reference machine computes, and
\* every instruction before it is a PUSH or PC that makes one of its arguments
FoldsPushes(bb, i) ==
    /\ i = Len(bb.instructions)
    /\ bb.instructions[i].opcode.ok
    /\ bb.instructions[i].opcode.byte \in ArithOps
    /\ i - 1 = InfoArgs(bb.instructions[i].opcode.byte)
    /\ \A j \in 1..(i - 1) :
          bb.instructions[j].opcode.ok /\ PushesConstant(bb.instructions[j].opcode.byte)

\* the reference machine's result of instruction i on the words pushed
\* before it, the last pushed being the first argument
RefOfPushes(code, bb, i) ==
    RefArith(bb.instructions[i].opcode.byte,
             PushedWord(code, bb.instructions[i - 1]),
             IF i >= 3 THEN PushedWord(code, bb.instructions[i - 2]) ELSE U256_ZERO)

\* instruction i of bb was folded to the word r
FoldedTo(code, bb, i, r) ==
    /\ bb.instructions[i].is_constant
    /\ bb.instructions[i].ignoreable
    /\ bb.instructions[i].value = Some(<<r>>)
    /\ bb.returns = <<Constant(i - 1, r)>>
    /\ bb.instructions[i].operands
          = Some([k \in 1..(i - 1) |-> PushedOperand(code, bb, (i - 1) - k)])

\* C13: a non-stack instruction at local index n that is folded from
\* arguments that are all constants is is_constant and ignoreable, its value
\* is the folded result, the operand it leaves on the stack (here the block's
\* single return) is Constant(n, result), and its operands are the constants
\* it consumed, the top of the stack first
C13_FoldRecord ==
    \A b \in Blocks :
        basic_blocks[b].optimized =>
            \A i \in 1..Len(basic_blocks[b].instructions) :
                FoldsPushes(basic_blocks[b], i) =>
                    FoldedTo(bytecode, basic_blocks[b], i,
                             RefOfPushes(bytecode, basic_blocks[b], i))

\* PUSH1 1; PUSH1 2; SUB folded to 2 - 1 = 1 at local index 2
C13_Witness ==
    \E b \in Blocks :
        /\ basic_blocks[b].optimized
        /\ Len(basic_blocks[b].instructions) = 3
        /\ basic_blocks[b].instructions[3].opcode.byte = SUB
        /\ basic_blocks[b].instructions[3].operands
              = Some(<<Constant(1, FromNat(2)), Constant(0, FromNat(1))>>)
        /\ basic_blocks[b].returns = <<Constant(2, FromNat(1))>>

\* instruction i of bb went through the arm of the non-stack instructions
NonStack(bb, i) ==
    /\ bb.instructions[i].opcode.ok
    /\ ~PushesConstant(bb.instructions[i].opcode.byte)
    /\ ~IsDup(bb.instructions[i].opcode.byte)
    /\ ~IsSwap(bb.instructions[i].opcode.byte)
    /\ bb.instructions[i].opcode.byte \notin {POP, JUMPDEST}

\* the arguments the emulator handed to the oracle for instruction ins
ArgsOf(ins) == IF ins.operands.some THEN ins.operands.v ELSE <<>>

\* the oracle's answer ev for op at local index idx has InfoRet(op) results
\* and, when nothing was folded, they are the instruction's own results and
\* not constant
OracleAnswerRight(op, idx, folded, ev) ==
    /\ Len(ev.ret) = InfoRet(op)
    /\ ~folded.some =>
          /\ ev.ret = [r \in 1..InfoRet(op) |-> InstructionRef(idx, r - 1)]
          /\ ~ev.is_constant

\* the instruction after instruction i of bb, if it is a JUMP, reads result 0
\* of instruction i
ConsumerReadsResult(bb, i) ==
    (/\ i < Len(bb.instructions)
     /\ InfoRet(bb.instructions[i].opcode.byte) = 1
     /\ bb.instructions[i + 1].opcode.byte = JUMP) =>
        bb.instructions[i + 1].operands = Some(<<InstructionRef(i - 1, 0)>>)

\* C14: for every non-stack instruction and the arguments the emulator hands
\* to the folding oracle, the oracle returns exactly `ret` operands; when no
\* fold applies they are InstructionRef(n, 0) .. InstructionRef(n, ret - 1)
\* with the constant flag false, the instruction stays non-ignoreable and its
\* consumer reads InstructionRef(n, 0)
C14_OracleResults ==
    \A b \in Blocks :
        Emulated(basic_blocks[b]) =>
            \A i \in 1..Len(basic_blocks[b].instructions) :
                NonStack(basic_blocks[b], i) =>
                    /\ OracleAnswerRight(
                           basic_blocks[b].instructions[i].opcode.byte, i - 1,
                           ConstEvalResult(basic_blocks[b].instructions[i].opcode.byte, i - 1,
                                           ArgsOf(basic_blocks[b].instructions[i])),
                           EvaluateOpcode(basic_blocks[b].instructions[i].opcode.byte, i - 1,
                                          ArgsOf(basic_blocks[b].instructions[i])))
                    /\ ~ConstEvalResult(basic_blocks[b].instructions[i].opcode.byte, i - 1,
                                        ArgsOf(basic_blocks[b].instructions[i])).some =>
                          /\ ~basic_blocks[b].instructions[i].ignoreable
                          /\ ConsumerReadsResult(basic_blocks[b], i)

\* PUSH1 2; ADD; JUMP: an ADD of a non-zero constant and an unknown entry
\* value, not folded, read by the JUMP
C14_Witness ==
    \E b \in Blocks :
        /\ Emulated(basic_blocks[b])
        /\ Len(basic_blocks[b].instructions) = 3
        /\ basic_blocks[b].instructions[2].opcode.byte = ADD
        /\ basic_blocks[b].instructions[2].operands
              = Some(<<Constant(0, FromNat(2)), StackRef(0, 0)>>)
        /\ ~basic_blocks[b].instructions[2].ignoreable
        /\ basic_blocks[b].instructions[3].operands = Some(<<InstructionRef(1, 0)>>)

\* the emulator's state at the end of the loop over the instructions of bb,
\* before the stack is compared with its initial length
BeforeFinish(code, bb) ==
    EmuRounds([bb |-> AsParsed(code, bb), evm_stack |-> InitialEvmStack, aborted |-> FALSE],
              0, Len(bb.instructions) - 1)

\* returns is the top Len(stack) - 32 operands of stack, top first, or empty
TopOperands(returns, stack) ==
    IF Len(stack) > SentinelCount
    THEN returns = [k \in 1..(Len(stack) - SentinelCount) |-> stack[k]]
    ELSE returns = <<>>

\* C15: at finalization of a block, with delta the length of the emulated
\* stack minus 32: if delta > 0, returns are exactly the top delta operands,
\* the top of the stack first; if delta <= 0, returns is empty
C15_ReturnsTopFirst ==
    \A b \in Blocks :
        (basic_blocks[b].optimized /\ ~BeforeFinish(bytecode, basic_blocks[b]).aborted) =>
            TopOperands(basic_blocks[b].returns,
                        BeforeFinish(bytecode, basic_blocks[b]).evm_stack)

\* a block that leaves two different operands and a block that leaves the
\* stack shorter than it was
C15_Witness ==
    /\ \E b \in Blocks :
          /\ Emulated(basic_blocks[b])
          /\ Len(basic_blocks[b].returns) = 2
          /\ basic_blocks[b].returns[1] /= basic_blocks[b].returns[2]
          /\ basic_blocks[b].returns[1]
                = BeforeFinish(bytecode, basic_blocks[b]).evm_stack[1]
    /\ \E b \in Blocks :
          /\ Emulated(basic_blocks[b])
          /\ basic_blocks[b].pops_at_end > 0
          /\ basic_blocks[b].returns = <<>>

\* the words on top of the real stack after the operands of returns were
\* pushed front to back: the last element ends up on top
PushedFrontToBack(bb) ==
    [k \in 1..Len(bb.returns) |-> Denote(bb, bb.returns[Len(bb.returns) - k + 1])]

\* the words on top of the real stack after the operands of returns were
\* pushed back to front: the first element ends up on top
PushedBackToFront(bb) ==
    [k \in 1..Len(bb.returns) |-> Denote(bb, bb.returns[k])]

\* the n words on top of the stack the reference machine leaves after bb
RefTop(code, bb, n) == SubSeq(RefRun(code, bb), 1, n)

\* C16 as stated: after optimize(), the operand of returns that must end up
\* on top of the real stack is the last element: pushing the list front to
\* back gives the top of the reference machine's final stack
C16_LastOnTop ==
    \A b \in Blocks :
        (Emulated(basic_blocks[b]) /\ SwapsResolved(basic_blocks[b])) =>
            PushedFrontToBack(basic_blocks[b])
                = RefTop(bytecode, basic_blocks[b], Len(basic_blocks[b].returns))

\* C16: after optimize(), the operand of returns that must end up on top of
\* the real stack is the first element: pushing the list back to front gives
\* the top of the reference machine's final stack
C16_FirstOnTop ==
    \A b \in Blocks :
        (Emulated(basic_blocks[b]) /\ SwapsResolved(basic_blocks[b])) =>
            PushedBackToFront(basic_blocks[b])
                = RefTop(bytecode, basic_blocks[b], Len(basic_blocks[b].returns))

\* a block whose two returned operands stand for different words, the first
\* of them the word the reference machine leaves on top
C16_Witness ==
    \E b \in Blocks :
        /\ Emulated(basic_blocks[b])
        /\ Len(basic_blocks[b].returns) = 2
        /\ Denote(basic_blocks[b], basic_blocks[b].returns[1])
              /= Denote(basic_blocks[b], basic_blocks[b].returns[2])
        /\ Denote(basic_blocks[b], basic_blocks[b].returns[1])
              = RefRun(bytecode, basic_blocks[b])[1]

\* the program is the block DUP1; JUMP and the block is optimized
DupJumpOptimized ==
    /\ bytecode = <<DUP1, JUMP>>
    /\ Len(basic_blocks) = 1
    /\ basic_blocks[1].optimized

\* what the emulator records in the instructions of DUP1; JUMP
DupJumpOperands(bb) ==
    /\ bb.instructions[1].ignoreable
    /\ bb.instructions[1].operands = Some(<<StackRef(0, 0)>>)
    /\ ~bb.instructions[2].ignoreable
    /\ bb.instructions[2].operands = Some(<<StackRef(0, 0)>>)

\* C17 as stated: for DUP1; JUMP (8056), after optimize() returns has length
\* 1, DUP1 is ignoreable with operand StackRef(0, 0) and JUMP's operands are
\* [StackRef(0, 0)]
C17_DupJumpReturnsOne ==
    DupJumpOptimized =>
        /\ Len(basic_blocks[1].returns) = 1
        /\ DupJumpOperands(basic_blocks[1])

\* C17: for DUP1; JUMP (8056), after optimize() returns is empty (the JUMP
\* consumed the copy), DUP1 is ignoreable with operand StackRef(0, 0) and
\* JUMP's operands are [StackRef(0, 0)]
C17_DupJump ==
    DupJumpOptimized =>
        /\ basic_blocks[1].returns = <<>>
        /\ DupJumpOperands(basic_blocks[1])

C17_Witness ==
    /\ DupJumpOptimized
    /\ basic_blocks[1].instructions[2].opcode.byte = JUMP
    /\ basic_blocks[1].instructions[2].operands.some

\* the value field of ins holds a word
HasValue(ins) == ins.value.some /\ ins.value.v /= <<>>

\* the oracle folded instruction i of bb
Folded(bb, i) ==
    /\ NonStack(bb, i)
    /\ ConstEvalResult(bb.instructions[i].opcode.byte, i - 1,
                       ArgsOf(bb.instructions[i])).some

\* the oracle folded instruction i of bb to an operand that is no constant
\* (x + 0, x * 1, ...)
FoldedByIdentity(bb, i) ==
    /\ Folded(bb, i)
    /\ ~IsConst(ConstEvalResult(bb.instructions[i].opcode.byte, i - 1,
                                ArgsOf(bb.instructions[i])).v)

ConstantFlagRight(bb, i) ==
    /\ bb.instructions[i].is_constant <=>
          \/ PushesConstant(bb.instructions[i].opcode.byte)
          \/ /\ IsDup(bb.instructions[i].opcode.byte)
             /\ IsConst(bb.instructions[i].operands.v[1])
          \/ Folded(bb, i)
    /\ bb.instructions[i].is_constant =>
          /\ bb.instructions[i].value.some
          /\ bb.instructions[i].ignoreable
          /\ Len(bb.instructions[i].value.v) <= 1
          /\ (bb.instructions[i].value.v = <<>>) <=> FoldedByIdentity(bb, i)
    /\ (HasValue(bb.instructions[i]) /\ ~bb.instructions[i].is_constant) =>
          bb.instructions[i].opcode.byte = CODESIZE

ImmediateLen(code, pc, n) == Min(pc + 1 + n, Len(code)) - (pc + 1)

\* v is the big-endian value of the m bytes of code that end before offset
\* end: digit k of v, counted from the least significant, is the k-th byte
\* from the end
IsBigEndianOf(v, code, end, m) ==
    /\ Len(v) <= m
    /\ \A k \in 1..m : Limb(v, k) = At(code, end - k)

\* C19: for every PUSHn at offset pc the partitioner records is_constant =
\* true and value = [big-endian of code[pc+1 .. min(pc+1+n, len))]: all n
\* immediate bytes when they exist, also when the immediate ends with the
\* code, the bytes that exist when there are fewer, and 0 when the PUSH is
\* the last byte
C19_PushValue ==
    \A b \in Blocks :
        \A i \in 1..Len(basic_blocks[b].instructions) :
            (/\ basic_blocks[b].instructions[i].opcode.ok
             /\ IsPush(basic_blocks[b].instructions[i].opcode.byte)) =>
                /\ basic_blocks[b].instructions[i].is_constant
                /\ basic_blocks[b].instructions[i].value.some
                /\ Len(basic_blocks[b].instructions[i].value.v) = 1
                /\ IsBigEndianOf(
                       basic_blocks[b].instructions[i].value.v[1], bytecode,
                       Min(basic_blocks[b].instructions[i].address + 1
                             + PushBytes(basic_blocks[b].instructions[i].opcode.byte),
                           Len(bytecode)),
                       ImmediateLen(bytecode, basic_blocks[b].instructions[i].address,
                                    PushBytes(basic_blocks[b].instructions[i].opcode.byte)))

\* STOP; PUSH2 ff ff: the immediate ends with the code
C19_Witness ==
    /\ bytecode = <<STOP, PUSH1 + 1, 255, 255>>
    /\ Len(basic_blocks) = 2
    /\ basic_blocks[2].instructions[1].opcode.byte = PUSH1 + 1
    /\ basic_blocks[2].instructions[1].value = Some(<<(<<255, 255>>)>>)

\* C20: both bit vectors of CodeMeta are as long as the code;
\* is_instruction[i] is false exactly for the offsets in [j+1, min(j+1+n,
\* len)) of a PUSHn whose opcode byte j the scan reaches, and true for every
\* other offset, undecodable bytes included
C20_CodeMetaVectors ==
    phase = "built" =>
        /\ Len(meta.jumpdests) = Len(bytecode)
        /\ Len(meta.iscode) = Len(bytecode)
        /\ \A i \in 0..(Len(bytecode) - 1) :
              IsInstruction(meta, i) <=> i \notin ImmediateOffsets(bytecode)

\* an undecodable byte the scan reaches, flagged as an instruction, before a
\* PUSH whose immediate is cut off by the end of the code
C20_Witness ==
    /\ phase = "built"
    /\ \E i \in ScanFrom(bytecode, 0) :
          /\ ~FromU8IsSome(At(bytecode, i))
          /\ IsInstruction(meta, i)
    /\ \E i \in ScanFrom(bytecode, 0) :
          /\ IsPush(At(bytecode, i))
          /\ i + 1 < Len(bytecode)
          /\ i + PushBytes(At(bytecode, i)) >= Len(bytecode)
          /\ ~IsInstruction(meta, i + 1)

\* C21: for every block, ends_on_invalid is true if and only if the block's
\* last instruction has an undecodable opcode; an undecodable instruction is
\* never at another position of a block, it carries the raw byte and it has
\* no operands
C21_EndsOnInvalid ==
    \A b \in Blocks :
        /\ basic_blocks[b].ends_on_invalid
              <=> ~LastInstr(basic_blocks[b]).opcode.ok
        /\ \A i \in 1..Len(basic_blocks[b].instructions) :
              ~basic_blocks[b].instructions[i].opcode.ok =>
                  /\ i = Len(basic_blocks[b].instructions)
                  /\ basic_blocks[b].instructions[i].opcode.byte
                        = At(bytecode, basic_blocks[b].instructions[i].address)
                  /\ ~FromU8IsSome(basic_blocks[b].instructions[i].opcode.byte)
                  /\ basic_blocks[b].instructions[i].operands = None

\* an optimized block that ends on an undecodable byte after another
\* instruction, followed by one more block
C21_Witness ==
    \E b \in Blocks :
        /\ basic_blocks[b].optimized
        /\ basic_blocks[b].ends_on_invalid
        /\ Len(basic_blocks[b].instructions) >= 2
        /\ ~LastInstr(basic_blocks[b]).opcode.ok
        /\ b < Len(basic_blocks)

\* exactly one of the two arguments is a constant
OneConstant(args) ==
    /\ Len(args) = 2
    /\ IsConst(args[1]) /= IsConst(args[2])

\* the result of the two-argument instruction op at local index n on the
\* arguments x0 (top of the stack) and x1, one of them a constant, by the
\* table of rewrites: x + 0, 0 + x, x - 0, x * 1, 1 * x, x / 1, x ** 1 and
\* shifts by 0 give x; x * 0, 0 * x, x / 0, 0 / x, 0 ** x give 0; x ** 0
\* gives 1; everything else is result 0 of the instruction
RewriteTable(op, n, x0, x1) ==
    IF op \in {ADD, MUL} /\ IsConstVal(x1, IF op = ADD THEN U256_ZERO ELSE U256_ONE)
    THEN x0
    ELSE IF op \in {ADD, MUL} /\ IsConstVal(x0, IF op = ADD THEN U256_ZERO ELSE U256_ONE)
    THEN x1
    ELSE IF op = SUB /\ IsConstVal(x1, U256_ZERO) THEN x0
    ELSE IF op \in {DIV, EXP} /\ IsConstVal(x1, U256_ONE) THEN x0
    ELSE IF op \in {SHL, SHR} /\ IsConstVal(x0, U256_ZERO) THEN x1
    ELSE IF op = EXP /\ IsConstVal(x1, U256_ZERO) THEN Constant(n, U256_ONE)
    ELSE IF op \in {MUL, DIV} /\ (IsConstVal(x0, U256_ZERO) \/ IsConstVal(x1, U256_ZERO))
    THEN Constant(n, U256_ZERO)
    ELSE IF op = EXP /\ IsConstVal(x0, U256_ZERO) THEN Constant(n, U256_ZERO)
    ELSE InstructionRef(n, 0)

\* instruction i of bb was given the result expected: the oracle returns
\* it, the instruction is is_constant and ignoreable exactly if it is not its
\* own result, and a JUMP that follows reads it
RewrittenTo(bb, i, expected) ==
    /\ EvaluateOpcode(bb.instructions[i].opcode.byte, i - 1, bb.instructions[i].operands.v).ret
          = <<expected>>
    /\ bb.instructions[i].is_constant = (expected /= InstructionRef(i - 1, 0))
    /\ bb.instructions[i].ignoreable = (expected /= InstructionRef(i - 1, 0))
    /\ (i < Len(bb.instructions) /\ bb.instructions[i + 1].opcode.byte = JUMP) =>
          bb.instructions[i + 1].operands = Some(<<expected>>)

\* C22: when exactly one argument of a two-argument instruction with one
\* result is a constant, the oracle applies exactly the rewrites of the table
\* (first argument = top of stack): identities return the other operand
\* itself, MUL by 0, x / 0, 0 / x and 0 ** x return Constant(n, 0), x ** 0
\* returns Constant(n, 1), and the instruction is marked constant and
\* ignoreable; every other combination, SUB 0 - x included, is not folded and
\* yields InstructionRef(n, 0)
C22_IdentityRewrites ==
    \A b \in Blocks :
        Emulated(basic_blocks[b]) =>
            \A i \in 1..Len(basic_blocks[b].instructions) :
                (/\ NonStack(basic_blocks[b], i)
                 /\ InfoRet(basic_blocks[b].instructions[i].opcode.byte) = 1
                 /\ OneConstant(ArgsOf(basic_blocks[b].instructions[i]))) =>
                    RewrittenTo(basic_blocks[b], i,
                                RewriteTable(basic_blocks[b].instructions[i].opcode.byte, i - 1,
                                             basic_blocks[b].instructions[i].operands.v[1],
                                             basic_blocks[b].instructions[i].operands.v[2]))

\* PUSH1 0; SUB; JUMP: 0 - x is not folded, the JUMP reads the result of the
\* SUB
C22_Witness ==
    \E b \in Blocks :
        /\ Emulated(basic_blocks[b])
        /\ Len(basic_blocks[b].instructions) = 3
        /\ basic_blocks[b].instructions[2].opcode.byte = SUB
        /\ basic_blocks[b].instructions[2].operands
              = Some(<<Constant(0, U256_ZERO), StackRef(0, 0)>>)
        /\ ~basic_blocks[b].instructions[2].is_constant
        /\ basic_blocks[b].instructions[3].operands = Some(<<InstructionRef(1, 0)>>)

\* the result of ADDMOD or MULMOD at local index n on args: the constant 0
\* when all three arguments are constants and the third, the modulus, is
\* zero, else result 0 of the instruction
ModTable(n, args) ==
    IF (\A k \in 1..3 : IsConst(args[k])) /\ args[3].val = U256_ZERO
    THEN Constant(n, U256_ZERO)
    ELSE InstructionRef(n, 0)

\* C23: ADDMOD and MULMOD are folded to Constant(n, 0) exactly when all
\* three arguments are constants and the modulus (third argument) is zero;
\* with a non-zero constant modulus, or when any argument is not a constant
\* (even if the modulus is the constant zero), they yield InstructionRef(n, 0)
\* and the instruction is not ignoreable
C23_ModFolds ==
    \A b \in Blocks :
        Emulated(basic_blocks[b]) =>
            \A i \in 1..Len(basic_blocks[b].instructions) :
                (/\ basic_blocks[b].instructions[i].opcode.ok
                 /\ basic_blocks[b].instructions[i].opcode.byte \in {ADDMOD, MULMOD}) =>
                    /\ basic_blocks[b].instructions[i].operands.some
                    /\ Len(basic_blocks[b].instructions[i].operands.v) = 3
                    /\ RewrittenTo(basic_blocks[b], i,
                                   ModTable(i - 1, basic_blocks[b].instructions[i].operands.v))

\* a block whose first instruction pushes the modulus c and whose fourth is
\* op, with the first and second argument constants or not as a1 and a2 say,
\* ignoreable or not as folded says
ModShape(op, c, a1, a2, folded) ==
    \E b \in Blocks :
        /\ Emulated(basic_blocks[b])
        /\ Len(basic_blocks[b].instructions) >= 4
        /\ basic_blocks[b].instructions[1].value = Some(<<c>>)
        /\ basic_blocks[b].instructions[4].opcode.byte = op
        /\ basic_blocks[b].instructions[4].operands.some
        /\ IsConst(basic_blocks[b].instructions[4].operands.v[3])
        /\ IsConst(basic_blocks[b].instructions[4].operands.v[2]) = a2
        /\ IsConst(basic_blocks[b].instructions[4].operands.v[1]) = a1
        /\ basic_blocks[b].instructions[4].ignoreable = folded

\* PUSH1 0; PUSH1 1; PUSH1 2; MULMOD is folded
C23_Witness == ModShape(MULMOD, U256_ZERO, TRUE, TRUE, TRUE)

\* the emulator's state right before instruction i of bb
EmuBefore(code, bb, i) ==
    EmuRounds([bb |-> AsParsed(code, bb), evm_stack |-> InitialEvmStack, aborted |-> FALSE],
              0, i - 2)

\* the emulator's state after the one instruction i, started from before
EmuAfter(before, i) == EmuRounds(before, i - 1, i - 1)

\* what the SWAPk recorded as ins did to the emulated stack: from the stack
\* old to the stack new, with pops the value of pops_at_end before it
SwapRight(ins, k, old, new, pops) ==
    /\ ins.ignoreable <=> k < Len(old)
    /\ Len(new) = Len(old)
    /\ k < Len(old) =>
          /\ new[1] = old[k + 1]
          /\ new[k + 1] = old[1]
          /\ \A j \in 1..Len(old) : j \notin {1, k + 1} => new[j] = old[j]
          /\ ins.operands = Some(<<old[1], old[k + 1]>>)
    /\ k >= Len(old) =>
          /\ ins.operands.some
          /\ Len(ins.operands.v) = 2
          /\ ins.operands.v[2] = StackRef(0, k - Len(old) + SentinelCount + pops)

\* SwapRight for the states before and after the instruction
SwapRightBetween(ins, k, before, after) ==
    SwapRight(ins, k, before.evm_stack, after.evm_stack, before.bb.pops_at_end)

\* SwapRight for instruction i of bb, from the state before it
SwapRightFrom(bb, i, before) ==
    SwapRightBetween(bb.instructions[i], SwapPosition(bb.instructions[i].opcode.byte),
                     before, EmuAfter(before, i))

\* C24: for SWAPk the emulator marks the instruction ignoreable if and only
\* if k < len(abstract stack); then it exchanges exactly the entries at
\* positions 0 and k, leaves every other entry and the length unchanged and
\* records the two exchanged operands; when k >= len the instruction is not
\* ignoreable, the stack length is unchanged and the deeper operand is
\* StackRef(0, k - len + 32 + pops_at_end)
C24_Swap ==
    \A b \in Blocks :
        basic_blocks[b].optimized =>
            \A i \in 1..Len(basic_blocks[b].instructions) :
                (/\ basic_blocks[b].instructions[i].opcode.ok
                 /\ IsSwap(basic_blocks[b].instructions[i].opcode.byte)) =>
                    SwapRightFrom(basic_blocks[b], i,
                                  EmuBefore(bytecode, basic_blocks[b], i))

\* 32 POPs, PC, SWAP1: the SWAP1 reaches below the emulated stack, it is
\* not ignoreable and its deeper operand is StackRef(0, 32)
C24_Witness ==
    \E b \in Blocks :
        /\ basic_blocks[b].optimized
        /\ Len(basic_blocks[b].instructions) = SentinelCount + 3
        /\ basic_blocks[b].instructions[SentinelCount + 2].opcode.byte = SWAP1
        /\ ~basic_blocks[b].instructions[SentinelCount + 2].ignoreable
        /\ basic_blocks[b].instructions[SentinelCount + 2].operands
              = Some(<<Constant(SentinelCount, FromNat(SentinelCount)),
                       StackRef(0, SentinelCount)>>)

\* what a POP does between the emulator states before and after
PopRight(before, after) ==
    IF Len(before.evm_stack) > 0
    THEN /\ after.evm_stack = Tail(before.evm_stack)
         /\ after.bb.pops_at_end = before.bb.pops_at_end
    ELSE /\ after.evm_stack = <<>>
         /\ after.bb.pops_at_end = before.bb.pops_at_end + 1

\* PopRight for instruction i of bb, from the state before it
PopRightFrom(before, i) == PopRight(before, EmuAfter(before, i))

\* bb is a number of POPs followed by STOP
PopsThenStop(bb) ==
    /\ LastInstr(bb).opcode.ok
    /\ LastInstr(bb).opcode.byte = STOP
    /\ \A i \in 1..(Len(bb.instructions) - 1) :
          bb.instructions[i].opcode.ok /\ bb.instructions[i].opcode.byte = POP

\* C25: after optimization every POP is ignoreable and has no operands; it
\* removes the top entry of the abstract stack when there is one and
\* otherwise leaves the stack empty and adds 1 to pops_at_end; a block of k
\* POPs followed by STOP ends with pops_at_end = k, below and above 32, and
\* the STOP has no operands and is not ignoreable
C25_Pop ==
    \A b \in Blocks :
        basic_blocks[b].optimized =>
            /\ \A i \in 1..Len(basic_blocks[b].instructions) :
                  (/\ basic_blocks[b].instructions[i].opcode.ok
                   /\ basic_blocks[b].instructions[i].opcode.byte = POP) =>
                      /\ basic_blocks[b].instructions[i].ignoreable
                      /\ basic_blocks[b].instructions[i].operands = None
            /\ \A i \in 1..Len(basic_blocks[b].instructions) :
                  (/\ basic_blocks[b].instructions[i].opcode.ok
                   /\ basic_blocks[b].instructions[i].opcode.byte = POP) =>
                      PopRightFrom(EmuBefore(bytecode, basic_blocks[b], i), i)
            /\ PopsThenStop(basic_blocks[b]) =>
                  /\ basic_blocks[b].pops_at_end = Len(basic_blocks[b].instructions) - 1
                  /\ LastInstr(basic_blocks[b]).operands = None
                  /\ ~LastInstr(basic_blocks[b]).ignoreable

\* 33 POPs and STOP, optimized: pops_at_end is 33
C25_Witness ==
    \E b \in Blocks :
        /\ basic_blocks[b].optimized
        /\ PopsThenStop(basic_blocks[b])
        /\ Len(basic_blocks[b].instructions) = SentinelCount + 2
        /\ basic_blocks[b].pops_at_end = SentinelCount + 1

\* the addresses of the first instructions of the blocks
BlockStarts == {basic_blocks[b].instructions[1].address : b \in Blocks}

\* C26: the partitioner and the scanner agree on instruction boundaries:
\* every offset i with is_valid_jumpdest(i) is the address of the first
\* instruction of some basic block, and every instruction address a of the
\* program satisfies is_instruction(a)
C26_BoundariesAgree ==
    phase = "built" =>
        /\ \A i \in 0..(Len(bytecode) - 1) :
              IsValidJumpdest(meta, i) => i \in BlockStarts
        /\ \A b \in Blocks :
              \A k \in 1..Len(basic_blocks[b].instructions) :
                  IsInstruction(meta, basic_blocks[b].instructions[k].address)

\* a jump destination that follows the immediate of a PUSH2 and starts the
\* second block, in a program that also has a 0x5b inside an immediate
C26_Witness ==
    /\ phase = "built"
    /\ Len(basic_blocks) >= 2
    /\ IsPush(LastInstr(basic_blocks[1]).opcode.byte)
    /\ IsValidJumpdest(meta, basic_blocks[2].address)
    /\ \E j \in ImmediateOffsets(bytecode) : At(bytecode, j) = JUMPDEST

\* a step of the loop of Program::new: the call of parse starts inside the
\* code, the block it appends starts there and has an instruction, and the
\* loop goes on behind the start
ParseAdvances ==
    /\ index < Len(bytecode)
    /\ Len(basic_blocks') = Len(basic_blocks) + 1
    /\ basic_blocks'[Len(basic_blocks')].address = index
    /\ Len(basic_blocks'[Len(basic_blocks')].instructions) >= 1
    /\ index' > index

\* C27: Program::new terminates on every input: each call of parse it makes
\* starts at an offset < code.len(), appends at least one instruction and
\* returns a next offset strictly greater than its start, so there are at
\* most code.len() blocks, none for the empty input, and the Program is
\* built in the end
C27_NewTerminates ==
    /\ [][phase = "new" /\ phase' = "new" => ParseAdvances]_vars
    /\ [](Len(basic_blocks) <= Len(bytecode))
    /\ [](bytecode = <<>> => basic_blocks = <<>>)
    /\ <>(phase = "built")

\* a built program with as many blocks as bytes, among them an undecodable
\* byte
C27_Witness ==
    /\ phase = "built"
    /\ Len(basic_blocks) = Len(bytecode)
    /\ Len(basic_blocks) >= 3
    /\ \E b \in Blocks : basic_blocks[b].ends_on_invalid

\* the instruction new is the instruction old up to its annotations
SameInstruction(old, new) ==
    /\ new.address = old.address
    /\ new.global_idx = old.global_idx
    /\ new.opcode = old.opcode

\* the block new is the block old up to the annotations of its instructions
\* and its summary
SameBlock(old, new) ==
    /\ new.address = old.address
    /\ new.ends_on_invalid = old.ends_on_invalid
    /\ Len(new.instructions) = Len(old.instructions)
    /\ \A i \in 1..Len(old.instructions) :
          SameInstruction(old.instructions[i], new.instructions[i])

\* a step leaves the bytecode, the CodeMeta, and the blocks up to annotations
\* and summaries
FrameKept ==
    /\ bytecode' = bytecode
    /\ meta' = meta
    /\ Len(basic_blocks') = Len(basic_blocks)
    /\ \A b \in Blocks : SameBlock(basic_blocks[b], basic_blocks'[b])

\* C28: optimize() changes only the annotations of the instructions
\* (operands, is_constant, ignoreable, value) and the summaries of the blocks
\* (returns, stack_sets, pops_at_end, optimized): the number and order of
\* blocks and instructions, every address, global_idx and opcode, every
\* block's address and ends_on_invalid, the bytecode and the CodeMeta stay,
\* and optimizing one block changes no other block
C28_OptimizeFrame ==
    [][phase = "built" =>
          /\ FrameKept
          /\ \A b \in Blocks :
                BlockOptimize(b) =>
                    \A c \in Blocks \ {b} : basic_blocks'[c] = basic_blocks[c]]_vars

\* a block that ends on an undecodable byte was optimized, its first
\* instruction is now ignoreable, and another block is not optimized yet
C28_Witness ==
    /\ phase = "built"
    /\ \E b \in Blocks :
          /\ basic_blocks[b].optimized
          /\ basic_blocks[b].ends_on_invalid
          /\ basic_blocks[b].instructions[1].ignoreable
    /\ \E c \in Blocks : ~basic_blocks[c].optimized

ReadAt(ins, j) ==
    IF IsDup(ins.opcode.byte) THEN DupPosition(ins.opcode.byte)
    ELSE IF IsSwap(ins.opcode.byte) /\ j = 2 THEN SwapPosition(ins.opcode.byte)
    ELSE j - 1

\* the operand x stands for position p of a stack of len entries that could
\* not supply it, with pops the value of pops_at_end: none of p - len,
\* p - len + 32 + pops wrapped around, and the offset is at least 32
SynthesizedRight(x, p, len, pops) ==
    /\ x.kind = "StackRef"
    /\ x.ref = 0
    /\ x.off >= SentinelCount
    /\ x.off - SentinelCount - pops = p - len
    /\ p - len >= 0

\* every operand of ins read from a position the emulated stack of len
\* entries could not supply is right
OffsetsRightAt(ins, len, pops) ==
    \A j \in 1..Len(ArgsOf(ins)) :
        ReadAt(ins, j) >= len => SynthesizedRight(ins.operands.v[j], ReadAt(ins, j), len, pops)

\* finalization of bb from the emulator state last: 32 - len is computed
\* only when it is not negative and is what pops_at_end grows by
FinishRight(bb, len, pops) ==
    /\ bb.pops_at_end - pops >= 0
    /\ bb.pops_at_end - pops = IF len < SentinelCount THEN SentinelCount - len ELSE 0

\* OffsetsRightAt for ins, from the emulator state before it
OffsetsRightFrom(ins, before) ==
    OffsetsRightAt(ins, Len(before.evm_stack), before.bb.pops_at_end)

\* FinishRight for bb, from the emulator state at the end of the loop
FinishRightFrom(bb, last) ==
    last.aborted \/ FinishRight(bb, Len(last.evm_stack), last.bb.pops_at_end)

\* C30: for every block, also one that refers to more than 32 entry slots,
\* none of the unsigned offset computations of the emulator (pos - stack_len
\* + 32 + pops_at_end for DUP and SWAP, args_idx + pops_at_end_before -
\* stack_len_before + 32 for other instructions, 32 - len at finalization)
\* underflows, and every StackRef made for a slot the abstract stack cannot
\* supply has an offset >= 32
C30_NoUnderflow ==
    \A b \in Blocks :
        basic_blocks[b].optimized =>
            /\ \A i \in 1..Len(basic_blocks[b].instructions) :
                  (/\ basic_blocks[b].instructions[i].opcode.ok
                   /\ \/ IsDup(basic_blocks[b].instructions[i].opcode.byte)
                      \/ IsSwap(basic_blocks[b].instructions[i].opcode.byte)
                      \/ NonStack(basic_blocks[b], i)) =>
                      OffsetsRightFrom(basic_blocks[b].instructions[i],
                                       EmuBefore(bytecode, basic_blocks[b], i))
            /\ FinishRightFrom(basic_blocks[b], BeforeFinish(bytecode, basic_blocks[b]))

\* 33 POPs; DUP2; DUP1; MUL: the DUP2 reads entry slot 34 from below the
\* emptied stack
C30_Witness ==
    \E b \in Blocks :
        /\ Emulated(basic_blocks[b])
        /\ Len(basic_blocks[b].instructions) = SentinelCount + 5
        /\ basic_blocks[b].instructions[SentinelCount + 2].opcode.byte = DUP1 + 1
        /\ basic_blocks[b].instructions[SentinelCount + 2].operands
              = Some(<<StackRef(0, SentinelCount + 2)>>)
        /\ basic_blocks[b].pops_at_end = SentinelCount

====
